---- MODULE Spec2Model ----
(***************************************************************************)
(* A model of the gollama client library: the Message codec, the request   *)
(* builders (prepareRequest / prepareGet), the nine public operations and  *)
(* their response decoders, and BatchError.GetErrorMessage.                *)
(*                                                                         *)
(* A Go string is a sequence of characters (a tuple of one-token strings); *)
(* a JSON document is a tree of tagged records whose string leaves hold    *)
(* the escaped wire text produced by encoding/json.                        *)
(***************************************************************************)
EXTENDS Integers, Sequences, FiniteSets, TLC

VARIABLES
    baseURL,    \* Client.baseURL
    timeout,    \* Client.httpClient.Timeout, in seconds
    headers,    \* Client.headers: the static header map
    pc,         \* position of the one caller: idle, inflight, responded, done
    op,         \* the operation in progress and its arguments
    request,    \* the HTTP request handed to httpClient.Do
    response,   \* what httpClient.Do gave back
    ret,        \* what the operation returned to its caller
    nsent,      \* requests dispatched since the operation was called
    nclosed,    \* calls of resp.Body.Close() since the operation was called
    codec,      \* Message codec: the message, its wire form, the decode of it
    berr,       \* BatchError under GetErrorMessage, and the message resolved
    calls       \* concurrent callers of one client: the position and request of each

vars == <<baseURL, timeout, headers, pc, op, request, response, ret, nsent, nclosed, codec,
          berr, calls>>

clientVars == <<baseURL, timeout, headers, pc, op, request, response, ret, nsent, nclosed,
                calls>>

(***************************************************************************)
(* Bounds.                                                                 *)
(***************************************************************************)
MaxContentLen == 2      \* characters in a Message.Content of the codec runs
MaxImages == 2          \* images in a Message of the codec runs
MaxLines == 3           \* lines in a batch-results body

(***************************************************************************)
(* Characters.  DQUOTE and BSLASH must be escaped inside a JSON string;    *)
(* BADBYTE is a byte that is not valid UTF-8 (a Go string may hold any     *)
(* bytes); REPLCHAR is the rune U+FFFD; UFFFD is the text ufffd that       *)
(* follows a backslash in the escape for that rune.                        *)
(***************************************************************************)
DQUOTE == "\""
BSLASH == "\\"
BADBYTE == "0xff"
REPLCHAR == "U+FFFD"
UFFFD == "ufffd"

RECURSIVE appendString(_)
\* encoding/json's string encoder (the text between the quotes)
appendString(s) ==
    IF s = <<>> THEN <<>>
    ELSE LET c == Head(s)
             e == IF c = DQUOTE THEN <<BSLASH, DQUOTE>>
                  ELSE IF c = BSLASH THEN <<BSLASH, BSLASH>>
                  ELSE IF c = BADBYTE THEN <<BSLASH, UFFFD>>
                  ELSE <<c>>
         IN e \o appendString(Tail(s))

RECURSIVE unquote(_)
\* encoding/json's string decoder (the text between the quotes)
unquote(w) ==
    IF w = <<>> THEN <<>>
    ELSE IF Head(w) = BSLASH /\ Len(w) >= 2
         THEN LET e == w[2]
                  c == IF e = UFFFD THEN REPLCHAR ELSE e
              IN <<c>> \o unquote(Tail(Tail(w)))
    ELSE IF Head(w) = BADBYTE THEN <<REPLCHAR>> \o unquote(Tail(w))
    ELSE <<Head(w)>> \o unquote(Tail(w))

(***************************************************************************)
(* JSON values.                                                            *)
(***************************************************************************)
JNull == [k |-> "null"]
JStr(w) == [k |-> "string", s |-> w]
JNum(n) == [k |-> "number", n |-> n]
JBool(b) == [k |-> "bool", b |-> b]
JArr(a) == [k |-> "array", a |-> a]
JObj(f) == [k |-> "object", f |-> f]

\* json.Marshal of a Go string
MarshalString(s) == JStr(appendString(s))

\* json.Marshal of a []string
MarshalStrings(ss) == JArr([i \in 1..Len(ss) |-> MarshalString(ss[i])])

\* a struct field on decode: absent or null leaves the zero value
Absent(o, key) == key \notin DOMAIN o.f \/ o.f[key].k = "null"

\* decode of a JSON value into a Go string: [ok, v]; a value of another JSON
\* type is an UnmarshalTypeError
DecodeString(v) ==
    IF v.k = "null" THEN [ok |-> TRUE, v |-> <<>>]
    ELSE IF v.k = "string" THEN [ok |-> TRUE, v |-> unquote(v.s)]
    ELSE [ok |-> FALSE, v |-> <<>>]

\* decode of a JSON value into a Go int
DecodeInt(v) ==
    IF v.k = "null" THEN [ok |-> TRUE, v |-> 0]
    ELSE IF v.k = "number" THEN [ok |-> TRUE, v |-> v.n]
    ELSE [ok |-> FALSE, v |-> 0]

\* decode of a JSON value into a Go bool
DecodeBool(v) ==
    IF v.k = "null" THEN [ok |-> TRUE, v |-> FALSE]
    ELSE IF v.k = "bool" THEN [ok |-> TRUE, v |-> v.b]
    ELSE [ok |-> FALSE, v |-> FALSE]

\* decode of the field key of the object o with the decoder D
Field(o, key, D(_), zero) ==
    IF Absent(o, key) THEN [ok |-> TRUE, v |-> zero] ELSE D(o.f[key])

\* decode of a pointer field: nil when the key is absent or null
PtrField(o, key, D(_), zero) ==
    IF Absent(o, key) THEN [ok |-> TRUE, v |-> [present |-> FALSE, v |-> zero]]
    ELSE [ok |-> D(o.f[key]).ok, v |-> [present |-> TRUE, v |-> D(o.f[key]).v]]

\* decode of a slice field, each element with the decoder D
SliceField(o, key, D(_)) ==
    IF Absent(o, key) THEN [ok |-> TRUE, v |-> <<>>]
    ELSE IF o.f[key].k # "array" THEN [ok |-> FALSE, v |-> <<>>]
    ELSE [ok |-> \A i \in 1..Len(o.f[key].a) : D(o.f[key].a[i]).ok,
          v |-> [i \in 1..Len(o.f[key].a) |-> D(o.f[key].a[i]).v]]

StringField(o, key) == Field(o, key, DecodeString, <<>>)
IntField(o, key) == Field(o, key, DecodeInt, 0)
BoolField(o, key) == Field(o, key, DecodeBool, FALSE)
StringsField(o, key) == SliceField(o, key, DecodeString)
IntsField(o, key) == SliceField(o, key, DecodeInt)
StringPtrField(o, key) == PtrField(o, key, DecodeString, <<>>)

(***************************************************************************)
(* Message and its codec (types.go, tools.go).                             *)
(***************************************************************************)
ToolCall(id, name, arguments) ==
    [ID |-> id, Type |-> <<"function">>, Function |-> [Name |-> name, Arguments |-> arguments]]

Message(role, content, thinking, reasoning, images, toolCalls, toolCallID) ==
    [Role |-> role, Content |-> content, Thinking |-> thinking,
     ReasoningContent |-> reasoning, Images |-> images,
     ToolCalls |-> toolCalls, ToolCallID |-> toolCallID]

\* json.Marshal of a ToolCall
MarshalToolCall(tc) ==
    JObj([function |-> JObj([name |-> MarshalString(tc.Function.Name),
                             arguments |-> MarshalString(tc.Function.Arguments)]),
          type |-> MarshalString(tc.Type),
          id |-> MarshalString(tc.ID)])

MarshalToolCalls(tcs) == JArr([i \in 1..Len(tcs) |-> MarshalToolCall(tcs[i])])

\* the optional sibling keys of a message: omitempty / the four if-statements
MessageOptionalKeys(m) ==
    {kk \in {"thinking", "reasoning_content", "tool_calls", "tool_call_id"} :
        \/ kk = "thinking" /\ m.Thinking # <<>>
        \/ kk = "reasoning_content" /\ m.ReasoningContent # <<>>
        \/ kk = "tool_calls" /\ Len(m.ToolCalls) > 0
        \/ kk = "tool_call_id" /\ m.ToolCallID # <<>>}

MessageOptionalValue(m, kk) ==
    IF kk = "thinking" THEN MarshalString(m.Thinking)
    ELSE IF kk = "reasoning_content" THEN MarshalString(m.ReasoningContent)
    ELSE IF kk = "tool_calls" THEN MarshalToolCalls(m.ToolCalls)
    ELSE MarshalString(m.ToolCallID)

\* one part of the structured content
TextPart(content) == JObj([type |-> JStr(<<"text">>), text |-> MarshalString(content)])

ImagePart(img) ==
    JObj([type |-> JStr(<<"image">>),
          source |-> JObj([type |-> JStr(<<"base64">>),
                           media_type |-> JStr(<<"image/jpeg">>),
                           data |-> MarshalString(img)])])

\* the loop putting each image part in front of what was built so far
StructuredContentPrepend(m) ==
    JArr([i \in 1..Len(m.Images) |-> ImagePart(m.Images[Len(m.Images) + 1 - i])]
         \o <<TextPart(m.Content)>>)

\* the content array built by the loop over m.Images
StructuredContent(m) ==
    JArr(<<TextPart(m.Content)>> \o [i \in 1..Len(m.Images) |-> ImagePart(m.Images[i])])

\* MarshalJSON without its len(m.Images) == 0 branch
MarshalJSONNoFlatBranch(m) ==
    JObj([kk \in {"role", "content"} \cup MessageOptionalKeys(m) |->
            IF kk = "role" THEN MarshalString(m.Role)
            ELSE IF kk = "content" THEN StructuredContent(m)
            ELSE MessageOptionalValue(m, kk)])

\* Message.MarshalJSON
MarshalJSON(m) ==
    LET contentValue == IF Len(m.Images) = 0 THEN MarshalString(m.Content)
                        ELSE StructuredContent(m)
        keys == {"role", "content"} \cup MessageOptionalKeys(m)
    IN JObj([kk \in keys |->
               IF kk = "role" THEN MarshalString(m.Role)
               ELSE IF kk = "content" THEN contentValue
               ELSE MessageOptionalValue(m, kk)])

ZeroToolCallFunction == [Name |-> <<>>, Arguments |-> <<>>]

\* decode of a ToolCallFunction: [ok, v]
UnmarshalToolCallFunction(v) ==
    IF v.k = "null" THEN [ok |-> TRUE, v |-> ZeroToolCallFunction]
    ELSE IF v.k # "object" THEN [ok |-> FALSE, v |-> ZeroToolCallFunction]
    ELSE [ok |-> StringField(v, "name").ok /\ StringField(v, "arguments").ok,
          v |-> [Name |-> StringField(v, "name").v,
                 Arguments |-> StringField(v, "arguments").v]]

ZeroToolCall == [ID |-> <<>>, Type |-> <<>>, Function |-> ZeroToolCallFunction]

\* decode of one ToolCall: [ok, v]
UnmarshalToolCall(v) ==
    IF v.k = "null" THEN [ok |-> TRUE, v |-> ZeroToolCall]
    ELSE IF v.k # "object" THEN [ok |-> FALSE, v |-> ZeroToolCall]
    ELSE LET id == StringField(v, "id")
             ty == StringField(v, "type")
             fn == Field(v, "function", UnmarshalToolCallFunction, ZeroToolCallFunction)
         IN [ok |-> id.ok /\ ty.ok /\ fn.ok,
             v |-> [ID |-> id.v, Type |-> ty.v, Function |-> fn.v]]

\* decode of a []ToolCall field: [ok, v]
ToolCallsField(o, key) == SliceField(o, key, UnmarshalToolCall)

ZeroMessage == Message(<<>>, <<>>, <<>>, <<>>, <<>>, <<>>, <<>>)

\* encoding/json's decode of a value into the Message struct (no UnmarshalJSON
\* is declared): [ok, v]; a field of the wrong JSON type is an UnmarshalTypeError
UnmarshalMessage(v) ==
    IF v.k = "null" THEN [ok |-> TRUE, v |-> ZeroMessage]
    ELSE IF v.k # "object" THEN [ok |-> FALSE, v |-> ZeroMessage]
    ELSE LET role == StringField(v, "role")
             content == StringField(v, "content")
             thinking == StringField(v, "thinking")
             reasoning == StringField(v, "reasoning_content")
             images == StringsField(v, "images")
             toolCalls == ToolCallsField(v, "tool_calls")
             toolCallID == StringField(v, "tool_call_id")
         IN [ok |-> role.ok /\ content.ok /\ thinking.ok /\ reasoning.ok
                    /\ images.ok /\ toolCalls.ok /\ toolCallID.ok,
             v |-> Message(role.v, content.v, thinking.v, reasoning.v,
                           images.v, toolCalls.v, toolCallID.v)]

(***************************************************************************)
(* The response envelopes and their decode by encoding/json (types.go,     *)
(* openai.go).  Every decoder gives [ok, v]: ok is FALSE on an             *)
(* UnmarshalTypeError; JSON null leaves the zero value; keys the struct    *)
(* does not declare are ignored.                                           *)
(***************************************************************************)
ZeroGenerateResponse ==
    [Model |-> <<>>, CreatedAt |-> <<>>, Response |-> <<>>, Done |-> FALSE,
     Context |-> <<>>, TotalDuration |-> 0, LoadDuration |-> 0,
     PromptEvalDuration |-> 0, EvalDuration |-> 0, EvalCount |-> 0, Error |-> <<>>]

\* decode into GenerateResponse
DecodeGenerateResponse(v) ==
    IF v.k = "null" THEN [ok |-> TRUE, v |-> ZeroGenerateResponse]
    ELSE IF v.k # "object" THEN [ok |-> FALSE, v |-> ZeroGenerateResponse]
    ELSE [ok |-> /\ StringField(v, "model").ok /\ StringField(v, "created_at").ok
                 /\ StringField(v, "response").ok /\ BoolField(v, "done").ok
                 /\ IntsField(v, "context").ok /\ IntField(v, "total_duration").ok
                 /\ IntField(v, "load_duration").ok
                 /\ IntField(v, "prompt_eval_duration").ok
                 /\ IntField(v, "eval_duration").ok /\ IntField(v, "eval_count").ok
                 /\ StringField(v, "error").ok,
          v |-> [Model |-> StringField(v, "model").v,
                 CreatedAt |-> StringField(v, "created_at").v,
                 Response |-> StringField(v, "response").v,
                 Done |-> BoolField(v, "done").v,
                 Context |-> IntsField(v, "context").v,
                 TotalDuration |-> IntField(v, "total_duration").v,
                 LoadDuration |-> IntField(v, "load_duration").v,
                 PromptEvalDuration |-> IntField(v, "prompt_eval_duration").v,
                 EvalDuration |-> IntField(v, "eval_duration").v,
                 EvalCount |-> IntField(v, "eval_count").v,
                 Error |-> StringField(v, "error").v]]

ZeroResponseMessage ==
    [Model |-> <<>>, Message |-> ZeroMessage, CreatedAt |-> <<>>, Done |-> FALSE,
     Error |-> <<>>, PromptEvalCount |-> 0, PromptEvalDuration |-> 0,
     EvalDuration |-> 0, EvalCount |-> 0]

\* decode into ResponseMessage
DecodeResponseMessage(v) ==
    IF v.k = "null" THEN [ok |-> TRUE, v |-> ZeroResponseMessage]
    ELSE IF v.k # "object" THEN [ok |-> FALSE, v |-> ZeroResponseMessage]
    ELSE [ok |-> /\ StringField(v, "model").ok
                 /\ Field(v, "message", UnmarshalMessage, ZeroMessage).ok
                 /\ StringField(v, "created_at").ok /\ BoolField(v, "done").ok
                 /\ StringField(v, "error").ok /\ IntField(v, "prompt_eval_count").ok
                 /\ IntField(v, "prompt_eval_duration").ok
                 /\ IntField(v, "eval_duration").ok /\ IntField(v, "eval_count").ok,
          v |-> [Model |-> StringField(v, "model").v,
                 Message |-> Field(v, "message", UnmarshalMessage, ZeroMessage).v,
                 CreatedAt |-> StringField(v, "created_at").v,
                 Done |-> BoolField(v, "done").v,
                 Error |-> StringField(v, "error").v,
                 PromptEvalCount |-> IntField(v, "prompt_eval_count").v,
                 PromptEvalDuration |-> IntField(v, "prompt_eval_duration").v,
                 EvalDuration |-> IntField(v, "eval_duration").v,
                 EvalCount |-> IntField(v, "eval_count").v]]

ZeroGenChoice == [Index |-> 0, Message |-> ZeroMessage]

\* decode into GenChoice
DecodeGenChoice(v) ==
    IF v.k = "null" THEN [ok |-> TRUE, v |-> ZeroGenChoice]
    ELSE IF v.k # "object" THEN [ok |-> FALSE, v |-> ZeroGenChoice]
    ELSE [ok |-> IntField(v, "index").ok
                 /\ Field(v, "message", UnmarshalMessage, ZeroMessage).ok,
          v |-> [Index |-> IntField(v, "index").v,
                 Message |-> Field(v, "message", UnmarshalMessage, ZeroMessage).v]]

ZeroPromptTokensDetails == [CachedTokens |-> 0]

\* decode into PromptTokensDetails
DecodePromptTokensDetails(v) ==
    IF v.k = "null" THEN [ok |-> TRUE, v |-> ZeroPromptTokensDetails]
    ELSE IF v.k # "object" THEN [ok |-> FALSE, v |-> ZeroPromptTokensDetails]
    ELSE [ok |-> IntField(v, "cached_tokens").ok,
          v |-> [CachedTokens |-> IntField(v, "cached_tokens").v]]

ZeroUsage ==
    [PromptTokens |-> 0, CompletionTokens |-> 0, TotalTokens |-> 0,
     PromptTokensDetails |-> [present |-> FALSE, v |-> ZeroPromptTokensDetails]]

\* decode into Usage; PromptTokensDetails is a pointer
DecodeUsage(v) ==
    IF v.k = "null" THEN [ok |-> TRUE, v |-> ZeroUsage]
    ELSE IF v.k # "object" THEN [ok |-> FALSE, v |-> ZeroUsage]
    ELSE LET details == PtrField(v, "prompt_tokens_details", DecodePromptTokensDetails,
                                 ZeroPromptTokensDetails)
         IN [ok |-> /\ IntField(v, "prompt_tokens").ok
                    /\ IntField(v, "completion_tokens").ok
                    /\ IntField(v, "total_tokens").ok /\ details.ok,
             v |-> [PromptTokens |-> IntField(v, "prompt_tokens").v,
                    CompletionTokens |-> IntField(v, "completion_tokens").v,
                    TotalTokens |-> IntField(v, "total_tokens").v,
                    PromptTokensDetails |-> details.v]]

ZeroResponseMessageGenerate ==
    [Model |-> <<>>, Choices |-> <<>>, CreatedAt |-> <<>>, Done |-> FALSE,
     Error |-> <<>>, Usage |-> ZeroUsage]

\* decode into ResponseMessageGenerate
DecodeResponseMessageGenerate(v) ==
    IF v.k = "null" THEN [ok |-> TRUE, v |-> ZeroResponseMessageGenerate]
    ELSE IF v.k # "object" THEN [ok |-> FALSE, v |-> ZeroResponseMessageGenerate]
    ELSE [ok |-> /\ StringField(v, "model").ok
                 /\ SliceField(v, "choices", DecodeGenChoice).ok
                 /\ StringField(v, "created_at").ok /\ BoolField(v, "done").ok
                 /\ StringField(v, "error").ok
                 /\ Field(v, "usage", DecodeUsage, ZeroUsage).ok,
          v |-> [Model |-> StringField(v, "model").v,
                 Choices |-> SliceField(v, "choices", DecodeGenChoice).v,
                 CreatedAt |-> StringField(v, "created_at").v,
                 Done |-> BoolField(v, "done").v,
                 Error |-> StringField(v, "error").v,
                 Usage |-> Field(v, "usage", DecodeUsage, ZeroUsage).v]]

ZeroModelDesc == [ID |-> <<>>, Object |-> <<>>, Root |-> <<>>]

\* decode into ModelDesc
DecodeModelDesc(v) ==
    IF v.k = "null" THEN [ok |-> TRUE, v |-> ZeroModelDesc]
    ELSE IF v.k # "object" THEN [ok |-> FALSE, v |-> ZeroModelDesc]
    ELSE [ok |-> StringField(v, "id").ok /\ StringField(v, "object").ok
                 /\ StringField(v, "root").ok,
          v |-> [ID |-> StringField(v, "id").v, Object |-> StringField(v, "object").v,
                 Root |-> StringField(v, "root").v]]

ZeroListModelsResponse == [Object |-> <<>>, Data |-> <<>>]

\* decode into listModelsResponse
DecodeListModelsResponse(v) ==
    IF v.k = "null" THEN [ok |-> TRUE, v |-> ZeroListModelsResponse]
    ELSE IF v.k # "object" THEN [ok |-> FALSE, v |-> ZeroListModelsResponse]
    ELSE [ok |-> StringField(v, "object").ok /\ SliceField(v, "data", DecodeModelDesc).ok,
          v |-> [Object |-> StringField(v, "object").v,
                 Data |-> SliceField(v, "data", DecodeModelDesc).v]]

(***************************************************************************)
(* The codec runs: a message is encoded, then its bytes are decoded.       *)
(***************************************************************************)
SeqsUpTo(S, n) == UNION {[1..len -> S] : len \in 0..n}

ContentChars == {"a", DQUOTE, BADBYTE}
ImageBlobs == {<<"QUJD">>, <<"REVG">>}
SampleToolCall == ToolCall(<<"call_1">>, <<"lookup">>, <<"{", DQUOTE, "q", DQUOTE, ":1}">>)

CodecMessages ==
    {Message(role, content, thinking, reasoning, images, toolCalls, toolCallID) :
        role \in {<<"user">>}, content \in SeqsUpTo(ContentChars, MaxContentLen),
        thinking \in {<<>>, <<"hm">>}, reasoning \in {<<>>, <<"because">>},
        images \in SeqsUpTo(ImageBlobs, MaxImages),
        toolCalls \in {<<>>, <<SampleToolCall>>},
        toolCallID \in {<<>>, <<"call_1">>}}

NoDecode == [ok |-> FALSE, v |-> ZeroMessage]

CodecIdle == [msg |-> ZeroMessage, wire |-> JNull, back |-> NoDecode, stage |-> "off"]

CodecInit ==
    /\ codec \in {[msg |-> m, wire |-> JNull, back |-> NoDecode, stage |-> "new"] :
                     m \in CodecMessages}
    /\ berr = [be |-> [Type |-> <<>>, Message |-> <<>>,
                       Error |-> [present |-> FALSE, Type |-> <<>>, Message |-> <<>>]],
               out |-> <<>>, stage |-> "off"]
    /\ headers = <<>> /\ pc = "off" /\ op = <<>> /\ request = <<>>
    /\ response = <<>> /\ ret = <<>> /\ nsent = 0 /\ nclosed = 0
    /\ baseURL = <<>> /\ timeout = 0 /\ calls = <<>>

\* json.Marshal(m): the encoder calls m.MarshalJSON()
EncodeMessage ==
    /\ codec.stage = "new"
    /\ codec' = [codec EXCEPT !.wire = MarshalJSON(codec.msg), !.stage = "encoded"]
    /\ UNCHANGED <<berr, clientVars>>

\* json.Unmarshal(bytes, &Message{})
DecodeMessage ==
    /\ codec.stage = "encoded"
    /\ codec' = [codec EXCEPT !.back = UnmarshalMessage(codec.wire), !.stage = "decoded"]
    /\ UNCHANGED <<berr, clientVars>>

CodecNext == EncodeMessage \/ DecodeMessage

SpecCodec == CodecInit /\ [][CodecNext]_vars

(***************************************************************************)
(* BatchError.GetErrorMessage (openai.go).  A nil *NestedBatchError is the *)
(* record with present = FALSE.                                            *)
(***************************************************************************)
NoNested == [present |-> FALSE, Type |-> <<>>, Message |-> <<>>]

BatchError(type, message, nested) == [Type |-> type, Message |-> message, Error |-> nested]

\* GetErrorMessage with the top-level message tested before the nested one
GetErrorMessageTopFirst(be) ==
    IF be.Message # <<>> THEN be.Message
    ELSE IF be.Error.present /\ be.Error.Message # <<>> THEN be.Error.Message
    ELSE IF be.Error.present /\ be.Error.Type # <<>> THEN be.Error.Type
    ELSE be.Type

\* BatchError.GetErrorMessage
GetErrorMessage(be) ==
    IF be.Error.present /\ be.Error.Message # <<>> THEN be.Error.Message
    ELSE IF be.Message # <<>> THEN be.Message
    ELSE IF be.Error.present /\ be.Error.Type # <<>> THEN be.Error.Type
    ELSE be.Type

(***************************************************************************)
(* The batch types and their decode (openai.go).                           *)
(***************************************************************************)
\* decode into NestedBatchError (Details is a map: it takes an object or null)
DecodeNestedBatchError(v) ==
    IF v.k = "null" THEN [ok |-> TRUE, v |-> [Type |-> <<>>, Message |-> <<>>]]
    ELSE IF v.k # "object" THEN [ok |-> FALSE, v |-> [Type |-> <<>>, Message |-> <<>>]]
    ELSE [ok |-> /\ StringField(v, "type").ok /\ StringField(v, "message").ok
                 /\ (Absent(v, "details") \/ v.f["details"].k = "object"),
          v |-> [Type |-> StringField(v, "type").v,
                 Message |-> StringField(v, "message").v]]

\* decode into BatchError
DecodeBatchError(v) ==
    IF v.k = "null" THEN [ok |-> TRUE, v |-> BatchError(<<>>, <<>>, NoNested)]
    ELSE IF v.k # "object" THEN [ok |-> FALSE, v |-> BatchError(<<>>, <<>>, NoNested)]
    ELSE LET nested == PtrField(v, "error", DecodeNestedBatchError,
                                [Type |-> <<>>, Message |-> <<>>])
         IN [ok |-> StringField(v, "type").ok /\ StringField(v, "message").ok /\ nested.ok,
             v |-> BatchError(StringField(v, "type").v, StringField(v, "message").v,
                              [present |-> nested.v.present, Type |-> nested.v.v.Type,
                               Message |-> nested.v.v.Message])]

ZeroBatchContentBlock == [Type |-> <<>>, Text |-> <<>>]

\* decode into BatchContentBlock
DecodeBatchContentBlock(v) ==
    IF v.k = "null" THEN [ok |-> TRUE, v |-> ZeroBatchContentBlock]
    ELSE IF v.k # "object" THEN [ok |-> FALSE, v |-> ZeroBatchContentBlock]
    ELSE [ok |-> StringField(v, "type").ok /\ StringField(v, "text").ok,
          v |-> [Type |-> StringField(v, "type").v, Text |-> StringField(v, "text").v]]

ZeroBatchUsage == [InputTokens |-> 0, OutputTokens |-> 0]

\* decode into BatchUsage
DecodeBatchUsage(v) ==
    IF v.k = "null" THEN [ok |-> TRUE, v |-> ZeroBatchUsage]
    ELSE IF v.k # "object" THEN [ok |-> FALSE, v |-> ZeroBatchUsage]
    ELSE [ok |-> IntField(v, "input_tokens").ok /\ IntField(v, "output_tokens").ok,
          v |-> [InputTokens |-> IntField(v, "input_tokens").v,
                 OutputTokens |-> IntField(v, "output_tokens").v]]

ZeroBatchMessageResult ==
    [ID |-> <<>>, Type |-> <<>>, Role |-> <<>>, Content |-> <<>>, Model |-> <<>>,
     StopReason |-> <<>>, StopSequence |-> <<>>, Usage |-> ZeroBatchUsage]

\* decode into BatchMessageResult
DecodeBatchMessageResult(v) ==
    IF v.k = "null" THEN [ok |-> TRUE, v |-> ZeroBatchMessageResult]
    ELSE IF v.k # "object" THEN [ok |-> FALSE, v |-> ZeroBatchMessageResult]
    ELSE [ok |-> /\ StringField(v, "id").ok /\ StringField(v, "type").ok
                 /\ StringField(v, "role").ok
                 /\ SliceField(v, "content", DecodeBatchContentBlock).ok
                 /\ StringField(v, "model").ok /\ StringField(v, "stop_reason").ok
                 /\ StringField(v, "stop_sequence").ok
                 /\ Field(v, "usage", DecodeBatchUsage, ZeroBatchUsage).ok,
          v |-> [ID |-> StringField(v, "id").v, Type |-> StringField(v, "type").v,
                 Role |-> StringField(v, "role").v,
                 Content |-> SliceField(v, "content", DecodeBatchContentBlock).v,
                 Model |-> StringField(v, "model").v,
                 StopReason |-> StringField(v, "stop_reason").v,
                 StopSequence |-> StringField(v, "stop_sequence").v,
                 Usage |-> Field(v, "usage", DecodeBatchUsage, ZeroBatchUsage).v]]

ZeroBatchResultDetail ==
    [Type |-> <<>>, Message |-> [present |-> FALSE, v |-> ZeroBatchMessageResult],
     Error |-> [present |-> FALSE, v |-> BatchError(<<>>, <<>>, NoNested)]]

\* decode into BatchResultDetail
DecodeBatchResultDetail(v) ==
    IF v.k = "null" THEN [ok |-> TRUE, v |-> ZeroBatchResultDetail]
    ELSE IF v.k # "object" THEN [ok |-> FALSE, v |-> ZeroBatchResultDetail]
    ELSE LET msg == PtrField(v, "message", DecodeBatchMessageResult, ZeroBatchMessageResult)
             err == PtrField(v, "error", DecodeBatchError, BatchError(<<>>, <<>>, NoNested))
         IN [ok |-> StringField(v, "type").ok /\ msg.ok /\ err.ok,
             v |-> [Type |-> StringField(v, "type").v, Message |-> msg.v, Error |-> err.v]]

ZeroBatchResult == [CustomID |-> <<>>, Result |-> ZeroBatchResultDetail]

\* decode into BatchResult
DecodeBatchResult(v) ==
    IF v.k = "null" THEN [ok |-> TRUE, v |-> ZeroBatchResult]
    ELSE IF v.k # "object" THEN [ok |-> FALSE, v |-> ZeroBatchResult]
    ELSE [ok |-> StringField(v, "custom_id").ok
                 /\ Field(v, "result", DecodeBatchResultDetail, ZeroBatchResultDetail).ok,
          v |-> [CustomID |-> StringField(v, "custom_id").v,
                 Result |-> Field(v, "result", DecodeBatchResultDetail,
                                  ZeroBatchResultDetail).v]]

ZeroBatchRequestCounts ==
    [Processing |-> 0, Succeeded |-> 0, Errored |-> 0, Canceled |-> 0, Expired |-> 0]

\* decode into BatchRequestCounts
DecodeBatchRequestCounts(v) ==
    IF v.k = "null" THEN [ok |-> TRUE, v |-> ZeroBatchRequestCounts]
    ELSE IF v.k # "object" THEN [ok |-> FALSE, v |-> ZeroBatchRequestCounts]
    ELSE [ok |-> /\ IntField(v, "processing").ok /\ IntField(v, "succeeded").ok
                 /\ IntField(v, "errored").ok /\ IntField(v, "canceled").ok
                 /\ IntField(v, "expired").ok,
          v |-> [Processing |-> IntField(v, "processing").v,
                 Succeeded |-> IntField(v, "succeeded").v,
                 Errored |-> IntField(v, "errored").v,
                 Canceled |-> IntField(v, "canceled").v,
                 Expired |-> IntField(v, "expired").v]]

NilString == [present |-> FALSE, v |-> <<>>]

ZeroBatch ==
    [ID |-> <<>>, Type |-> <<>>, ProcessingStatus |-> <<>>,
     RequestCounts |-> ZeroBatchRequestCounts, EndedAt |-> NilString,
     CreatedAt |-> <<>>, ExpiresAt |-> <<>>, ArchivedAt |-> NilString,
     CancelInitiatedAt |-> NilString, ResultsURL |-> NilString]

\* decode into Batch
DecodeBatch(v) ==
    IF v.k = "null" THEN [ok |-> TRUE, v |-> ZeroBatch]
    ELSE IF v.k # "object" THEN [ok |-> FALSE, v |-> ZeroBatch]
    ELSE [ok |-> /\ StringField(v, "id").ok /\ StringField(v, "type").ok
                 /\ StringField(v, "processing_status").ok
                 /\ Field(v, "request_counts", DecodeBatchRequestCounts,
                          ZeroBatchRequestCounts).ok
                 /\ StringPtrField(v, "ended_at").ok /\ StringField(v, "created_at").ok
                 /\ StringField(v, "expires_at").ok /\ StringPtrField(v, "archived_at").ok
                 /\ StringPtrField(v, "cancel_initiated_at").ok
                 /\ StringPtrField(v, "results_url").ok,
          v |-> [ID |-> StringField(v, "id").v, Type |-> StringField(v, "type").v,
                 ProcessingStatus |-> StringField(v, "processing_status").v,
                 RequestCounts |-> Field(v, "request_counts", DecodeBatchRequestCounts,
                                         ZeroBatchRequestCounts).v,
                 EndedAt |-> StringPtrField(v, "ended_at").v,
                 CreatedAt |-> StringField(v, "created_at").v,
                 ExpiresAt |-> StringField(v, "expires_at").v,
                 ArchivedAt |-> StringPtrField(v, "archived_at").v,
                 CancelInitiatedAt |-> StringPtrField(v, "cancel_initiated_at").v,
                 ResultsURL |-> StringPtrField(v, "results_url").v]]

ZeroListBatchesResponse ==
    [Data |-> <<>>, HasMore |-> FALSE, FirstID |-> NilString, LastID |-> NilString]

\* decode into ListBatchesResponse
DecodeListBatchesResponse(v) ==
    IF v.k = "null" THEN [ok |-> TRUE, v |-> ZeroListBatchesResponse]
    ELSE IF v.k # "object" THEN [ok |-> FALSE, v |-> ZeroListBatchesResponse]
    ELSE [ok |-> /\ SliceField(v, "data", DecodeBatch).ok /\ BoolField(v, "has_more").ok
                 /\ StringPtrField(v, "first_id").ok /\ StringPtrField(v, "last_id").ok,
          v |-> [Data |-> SliceField(v, "data", DecodeBatch).v,
                 HasMore |-> BoolField(v, "has_more").v,
                 FirstID |-> StringPtrField(v, "first_id").v,
                 LastID |-> StringPtrField(v, "last_id").v]]

TopTypes == {<<>>, <<"error">>, <<"api_error">>}
TopMessages == {<<>>, <<"request failed">>, <<"failed">>}
NestedTypes == {<<>>, <<"invalid_request_error">>, <<"overloaded_error">>}
NestedMessages == {<<>>, <<"max_tokens: too large">>, <<"overloaded">>}

BatchErrors ==
    {BatchError(t, msg, n) :
        t \in TopTypes, msg \in TopMessages,
        n \in {NoNested} \cup {[present |-> TRUE, Type |-> nt, Message |-> nm] :
                                  nt \in NestedTypes, nm \in NestedMessages}}

BerrIdle == [be |-> BatchError(<<>>, <<>>, NoNested), out |-> <<>>, stage |-> "off"]

BatchErrorInit ==
    /\ berr \in {[be |-> b, out |-> <<>>, stage |-> "new"] : b \in BatchErrors}
    /\ codec = CodecIdle
    /\ headers = <<>> /\ pc = "off" /\ op = <<>> /\ request = <<>>
    /\ response = <<>> /\ ret = <<>> /\ nsent = 0 /\ nclosed = 0
    /\ baseURL = <<>> /\ timeout = 0 /\ calls = <<>>

\* the caller resolves the message of an errored item
ResolveMessage ==
    /\ berr.stage = "new"
    /\ berr' = [berr EXCEPT !.out = GetErrorMessage(berr.be), !.stage = "resolved"]
    /\ UNCHANGED <<codec, clientVars>>

BatchErrorNext == ResolveMessage

SpecBatchError == BatchErrorInit /\ [][BatchErrorNext]_vars

(***************************************************************************)
(* Request payloads (types.go, tools.go, openai.go) and json.Marshal of    *)
(* them.  A nil slice or map is the empty sequence; a nil *Options is the  *)
(* record with present = FALSE.  ToolFunction.Parameters and               *)
(* BatchRequestParams.Metadata are of type any: "unsupported" stands for a *)
(* Go value encoding/json cannot encode (a func, a channel).               *)
(***************************************************************************)
NilOptions == [present |-> FALSE, Temperature |-> 0, TopP |-> 0, TopK |-> 0, MaxTokens |-> 0]

\* json.Marshal of *Options: every field is omitempty
MarshalOptions(o) ==
    LET keys == {kk \in {"temperature", "top_p", "top_k", "num_predict"} :
                    \/ kk = "temperature" /\ o.Temperature # 0
                    \/ kk = "top_p" /\ o.TopP # 0
                    \/ kk = "top_k" /\ o.TopK # 0
                    \/ kk = "num_predict" /\ o.MaxTokens # 0}
    IN JObj([kk \in keys |->
               IF kk = "temperature" THEN JNum(o.Temperature)
               ELSE IF kk = "top_p" THEN JNum(o.TopP)
               ELSE IF kk = "top_k" THEN JNum(o.TopK)
               ELSE JNum(o.MaxTokens)])

\* json.Marshal of a value of type any
MarshalAny(a) == IF a = "nil" THEN JNull ELSE JObj([type |-> JStr(<<"object">>)])

\* json.Marshal of a ToolParam (Function is a pointer with omitempty)
MarshalToolParam(t) ==
    IF t.Function.present
    THEN JObj([type |-> MarshalString(t.Type),
               function |-> JObj([name |-> MarshalString(t.Function.Name),
                                  description |-> MarshalString(t.Function.Description),
                                  parameters |-> MarshalAny(t.Function.Parameters)])])
    ELSE JObj([type |-> MarshalString(t.Type)])

MarshalMessages(ms) == JArr([i \in 1..Len(ms) |-> MarshalJSON(ms[i])])

\* the keys of a RequestOptions payload: omitempty on all but model, stream, think
RequestOptionsKeys(o) ==
    {"model", "stream", "think"} \cup
    {kk \in {"prompt", "system", "context", "format", "raw", "images", "messages",
             "options", "tools", "tool_choice"} :
        \/ kk = "prompt" /\ o.Prompt # <<>>
        \/ kk = "system" /\ o.System # <<>>
        \/ kk = "context" /\ Len(o.Context) > 0
        \/ kk = "format" /\ o.Format # <<>>
        \/ kk = "raw" /\ o.Raw
        \/ kk = "images" /\ Len(o.Images) > 0
        \/ kk = "messages" /\ Len(o.Messages) > 0
        \/ kk = "options" /\ o.Options.present
        \/ kk = "tools" /\ Len(o.Tools) > 0
        \/ kk = "tool_choice" /\ o.ToolChoice # <<>>}

\* json.Marshal(opts) for a RequestOptions
MarshalRequestOptions(o) ==
    JObj([kk \in RequestOptionsKeys(o) |->
            CASE kk = "model" -> MarshalString(o.Model)
              [] kk = "prompt" -> MarshalString(o.Prompt)
              [] kk = "system" -> MarshalString(o.System)
              [] kk = "context" -> JArr([i \in 1..Len(o.Context) |-> JNum(o.Context[i])])
              [] kk = "format" -> MarshalString(o.Format)
              [] kk = "raw" -> JBool(o.Raw)
              [] kk = "images" -> MarshalStrings(o.Images)
              [] kk = "stream" -> JBool(o.Stream)
              [] kk = "messages" -> MarshalMessages(o.Messages)
              [] kk = "options" -> MarshalOptions(o.Options)
              [] kk = "think" -> JBool(o.Think)
              [] kk = "tools" -> JArr([i \in 1..Len(o.Tools) |-> MarshalToolParam(o.Tools[i])])
              [] OTHER -> MarshalString(o.ToolChoice)])

\* does json.Marshal(opts) succeed
RequestOptionsEncodable(o) ==
    \A i \in 1..Len(o.Tools) :
        ~(o.Tools[i].Function.present /\ o.Tools[i].Function.Parameters = "unsupported")

\* json.Marshal of BatchRequestParams
MarshalBatchRequestParams(bp) ==
    LET keys == {"model", "max_tokens", "messages"} \cup
                {kk \in {"system", "temperature", "top_p", "top_k", "stop_sequences",
                         "metadata"} :
                    \/ kk = "system" /\ bp.System # <<>>
                    \/ kk = "temperature" /\ bp.Temperature # 0
                    \/ kk = "top_p" /\ bp.TopP # 0
                    \/ kk = "top_k" /\ bp.TopK # 0
                    \/ kk = "stop_sequences" /\ Len(bp.StopSequences) > 0
                    \/ kk = "metadata" /\ bp.Metadata # "nil"}
    IN JObj([kk \in keys |->
               CASE kk = "model" -> MarshalString(bp.Model)
                 [] kk = "max_tokens" -> JNum(bp.MaxTokens)
                 [] kk = "messages" ->
                      IF Len(bp.Messages) = 0 THEN JNull ELSE MarshalMessages(bp.Messages)
                 [] kk = "system" -> MarshalString(bp.System)
                 [] kk = "temperature" -> JNum(bp.Temperature)
                 [] kk = "top_p" -> JNum(bp.TopP)
                 [] kk = "top_k" -> JNum(bp.TopK)
                 [] kk = "stop_sequences" -> MarshalStrings(bp.StopSequences)
                 [] OTHER -> MarshalAny(bp.Metadata)])

\* json.Marshal(req) for a CreateBatchRequest
MarshalCreateBatchRequest(r) ==
    JObj([requests |->
            IF Len(r.Requests) = 0 THEN JNull
            ELSE JArr([i \in 1..Len(r.Requests) |->
                         JObj([custom_id |-> MarshalString(r.Requests[i].CustomID),
                               params |-> MarshalBatchRequestParams(r.Requests[i].Params)])])])

\* does json.Marshal(req) succeed
CreateBatchRequestEncodable(r) ==
    \A i \in 1..Len(r.Requests) : r.Requests[i].Params.Metadata # "unsupported"

(***************************************************************************)
(* Sample arguments of the operations.                                     *)
(***************************************************************************)
UserMessage == Message(<<"user">>, <<"hello">>, <<>>, <<>>, <<>>, <<>>, <<>>)
ImageMessage == Message(<<"user">>, <<"describe this">>, <<>>, <<>>, <<<<"QUJD">>>>, <<>>, <<>>)

NilFunction == [present |-> FALSE, Name |-> <<>>, Description |-> <<>>, Parameters |-> "nil"]

SchemaTool ==
    [Type |-> <<"function">>,
     Function |-> [present |-> TRUE, Name |-> <<"lookup">>,
                   Description |-> <<"look something up">>, Parameters |-> "schema"]]
ChannelTool ==
    [Type |-> <<"function">>,
     Function |-> [present |-> TRUE, Name |-> <<"broken">>,
                   Description |-> <<>>, Parameters |-> "unsupported"]]

ZeroRequestOptions ==
    [Model |-> <<>>, Prompt |-> <<>>, System |-> <<>>, Context |-> <<>>, Format |-> <<>>,
     Raw |-> FALSE, Images |-> <<>>, Stream |-> FALSE, Messages |-> <<>>,
     Options |-> NilOptions, Think |-> FALSE, Tools |-> <<>>, ToolChoice |-> <<>>]

RequestOptionsShapes ==
    {ZeroRequestOptions,
     [ZeroRequestOptions EXCEPT !.Model = <<"llama3">>],
     [ZeroRequestOptions EXCEPT !.Model = <<"llama3">>, !.Prompt = <<"why is the sky blue">>,
                                !.System = <<"be brief">>, !.Context = <<1, 2>>,
                                !.Format = <<"json">>, !.Raw = TRUE, !.Images = <<<<"QUJD">>>>],
     [ZeroRequestOptions EXCEPT !.Model = <<"llama3">>, !.Messages = <<UserMessage>>],
     [ZeroRequestOptions EXCEPT !.Model = <<"llama3">>, !.Messages = <<UserMessage, ImageMessage>>,
                                !.Think = TRUE,
                                !.Options = [present |-> TRUE, Temperature |-> 1, TopP |-> 0,
                                             TopK |-> 40, MaxTokens |-> 0]],
     [ZeroRequestOptions EXCEPT !.Model = <<"llama3">>, !.Messages = <<UserMessage>>,
                                !.Tools = <<SchemaTool>>, !.ToolChoice = <<"auto">>],
     [ZeroRequestOptions EXCEPT !.Model = <<"llama3">>, !.Messages = <<UserMessage>>,
                                !.Tools = <<ChannelTool>>]}

RequestOptionsSamples ==
    {[o EXCEPT !.Stream = st] : o \in RequestOptionsShapes, st \in BOOLEAN}

BatchParams(metadata) ==
    [Model |-> <<"claude">>, MaxTokens |-> 64, Messages |-> <<UserMessage>>, System |-> <<>>,
     Temperature |-> 0, TopP |-> 0, TopK |-> 0, StopSequences |-> <<>>, Metadata |-> metadata]

CreateBatchRequestSamples ==
    {[Requests |-> <<>>],
     [Requests |-> <<[CustomID |-> <<"a">>, Params |-> BatchParams("nil")],
                     [CustomID |-> <<"b">>, Params |-> BatchParams("map")]>>],
     [Requests |-> <<[CustomID |-> <<"a">>, Params |-> BatchParams("unsupported")]>>]}

\* a character net/url rejects (an ASCII control character)
CTRL == "0x7f"

BatchIDs == {<<"msgbatch_1">>, <<"msgbatch", CTRL>>}
CursorIDs == {<<>>, <<"msgbatch_1">>, <<"msgbatch", CTRL>>}
Limits == {-1, 0, 1, 20}

(***************************************************************************)
(* Response bodies.  A body is a sequence of lines, a line a sequence of   *)
(* chunks; a chunk is the text of one JSON value, or text that is not      *)
(* JSON ("garbage"), of which the decoder distinguishes the first byte: a  *)
(* closing bracket or brace ("close"), or anything else ("other").         *)
(***************************************************************************)
Value(v) == [c |-> "value", v |-> v, first |-> "value"]
Garbage(first) == [c |-> "garbage", v |-> JNull, first |-> first]

RECURSIVE Chunks(_)
\* the body as the decoder reads it: line ends are white space
Chunks(body) == IF body = <<>> THEN <<>> ELSE Head(body) \o Chunks(Tail(body))

\* json.Decoder.More: there is a next byte and it is neither ']' nor '}'
More(chunks) == chunks # <<>> /\ Head(chunks).first # "close"

\* json.Decoder.Decode into the type decoded by D: err is "nil", "EOF" (no
\* value left), "syntax" (not JSON) or "type" (UnmarshalTypeError)
Decode(chunks, D(_), zero) ==
    IF chunks = <<>> THEN [err |-> "EOF", v |-> zero, rest |-> <<>>]
    ELSE IF Head(chunks).c = "garbage" THEN [err |-> "syntax", v |-> zero, rest |-> chunks]
    ELSE IF D(Head(chunks).v).ok
         THEN [err |-> "nil", v |-> D(Head(chunks).v).v, rest |-> Tail(chunks)]
    ELSE [err |-> "type", v |-> zero, rest |-> Tail(chunks)]

AssistantFlat ==
    JObj([role |-> JStr(<<"assistant">>), content |-> JStr(<<"say ", BSLASH, DQUOTE, "hi">>)])
AssistantStructured ==
    JObj([role |-> JStr(<<"assistant">>),
          content |-> JArr(<<JObj([type |-> JStr(<<"text">>), text |-> JStr(<<"say ">>)]),
                             JObj([type |-> JStr(<<"text">>), text |-> JStr(<<"hi">>)])>>)])

GenerateDoc ==
    JObj([model |-> JStr(<<"llama3">>), created_at |-> JStr(<<"2024-05-01">>),
          response |-> JStr(<<"scattering">>), done |-> JBool(FALSE)])
GenerateDocLast ==
    JObj([model |-> JStr(<<"llama3">>), created_at |-> JStr(<<"2024-05-01">>),
          response |-> JStr(<<>>), done |-> JBool(TRUE), eval_count |-> JNum(7)])
ChatDoc(message) ==
    JObj([model |-> JStr(<<"llama3">>), message |-> message, done |-> JBool(TRUE)])
CompletionDoc(message, usage) ==
    JObj([model |-> JStr(<<"gpt">>),
          choices |-> JArr(<<JObj([index |-> JNum(0), message |-> message])>>),
          usage |-> usage])
UsagePlain ==
    JObj([prompt_tokens |-> JNum(3), completion_tokens |-> JNum(5), total_tokens |-> JNum(8)])
UsageCached ==
    JObj([prompt_tokens |-> JNum(3), completion_tokens |-> JNum(5), total_tokens |-> JNum(8),
          prompt_tokens_details |-> JObj([cached_tokens |-> JNum(2)])])
UsageDetailsEmpty ==
    JObj([prompt_tokens |-> JNum(3), completion_tokens |-> JNum(5), total_tokens |-> JNum(8),
          prompt_tokens_details |-> JObj(<<>>)])
BatchDoc ==
    JObj([id |-> JStr(<<"msgbatch_1">>), type |-> JStr(<<"message_batch">>),
          processing_status |-> JStr(<<"in_progress">>),
          request_counts |-> JObj([processing |-> JNum(2), succeeded |-> JNum(0),
                                   errored |-> JNum(0), canceled |-> JNum(0),
                                   expired |-> JNum(0)]),
          created_at |-> JStr(<<"2024-05-01">>), expires_at |-> JStr(<<"2024-05-02">>),
          cancel_initiated_at |-> JStr(<<"2024-05-01">>)])
ListBatchesDoc ==
    JObj([data |-> JArr(<<BatchDoc>>), has_more |-> JBool(TRUE),
          first_id |-> JStr(<<"msgbatch_1">>), last_id |-> JStr(<<"msgbatch_1">>)])
ListModelsDoc ==
    JObj([object |-> JStr(<<"list">>),
          data |-> JArr(<<JObj([id |-> JStr(<<"llama3">>), object |-> JStr(<<"model">>)])>>)])

\* the bodies a provider may answer to an operation that reads one JSON value
SingleBodies ==
    {<<>>,
     << <<Garbage("other")>> >>,
     << <<Value(JNum(42))>> >>,
     << <<Value(GenerateDoc)>> >>,
     << <<Value(GenerateDoc)>>, <<Value(GenerateDocLast)>> >>,
     << <<Value(GenerateDoc)>>, <<Garbage("other")>> >>,
     << <<Value(GenerateDocLast), Garbage("close")>> >>,
     << <<Value(ChatDoc(AssistantFlat))>> >>,
     << <<Value(ChatDoc(AssistantStructured))>> >>,
     << <<Value(CompletionDoc(AssistantFlat, UsagePlain))>> >>,
     << <<Value(CompletionDoc(AssistantFlat, UsageCached))>> >>,
     << <<Value(CompletionDoc(AssistantFlat, UsageDetailsEmpty))>> >>,
     << <<Value(CompletionDoc(AssistantStructured, UsagePlain))>> >>,
     << <<Value(BatchDoc)>> >>,
     << <<Value(ListBatchesDoc)>> >>,
     << <<Value(ListModelsDoc)>> >>}

ResultDoc(customID, detail) == JObj([custom_id |-> JStr(customID), result |-> detail])

SucceededDetail ==
    JObj([type |-> JStr(<<"succeeded">>),
          message |-> JObj([id |-> JStr(<<"msg_1">>), type |-> JStr(<<"message">>),
                            role |-> JStr(<<"assistant">>),
                            content |-> JArr(<<JObj([type |-> JStr(<<"text">>),
                                                     text |-> JStr(<<"hi">>)])>>),
                            model |-> JStr(<<"claude">>),
                            usage |-> JObj([input_tokens |-> JNum(3),
                                            output_tokens |-> JNum(1)])])])
ErroredDetail ==
    JObj([type |-> JStr(<<"errored">>),
          error |-> JObj([type |-> JStr(<<"error">>),
                          error |-> JObj([type |-> JStr(<<"invalid_request_error">>),
                                          message |-> JStr(<<"max_tokens: too large">>)])])])
CanceledDetail == JObj([type |-> JStr(<<"canceled">>)])
ExpiredDetail == JObj([type |-> JStr(<<"expired">>)])

\* the lines of a results stream that hold one well-formed batch result
ResultLines ==
    {<<Value(ResultDoc(<<"a">>, SucceededDetail))>>,
     <<Value(ResultDoc(<<"b">>, ErroredDetail))>>,
     <<Value(ResultDoc(<<"c">>, CanceledDetail))>>,
     <<Value(ResultDoc(<<"d">>, ExpiredDetail))>>}

\* the lines that are not JSON: text no value starts with, text starting with a
\* closing brace, and a result followed by stray text on the same line
MalformedLines ==
    {<<Garbage("other")>>,
     <<Garbage("close")>>,
     <<Value(ResultDoc(<<"a">>, SucceededDetail)), Garbage("other")>>}

\* a line holding a JSON value that is not an object
MistypedLines == {<<Value(JNum(42))>>}

ResultsBodies == SeqsUpTo(ResultLines \cup MalformedLines \cup MistypedLines, MaxLines)

StatusOK == 200
StatusCodes == {200, 201, 400, 404, 429, 500}

(***************************************************************************)
(* Errors and returns.  An error is the format string of its fmt.Errorf    *)
(* with the arguments it was given; cause is the wrapped error.            *)
(***************************************************************************)
NoError == [nil |-> TRUE, msg |-> "", status |-> 0, body |-> <<>>, line |-> 0, cause |-> ""]

Error(msg, cause) ==
    [nil |-> FALSE, msg |-> msg, status |-> 0, body |-> <<>>, line |-> 0, cause |-> cause]

\* fmt.Errorf("API returned non-200 status code %d: %s", resp.StatusCode, string(bodyBytes))
StatusError(status, body) ==
    [nil |-> FALSE, msg |-> "API returned non-200 status code %d: %s", status |-> status,
     body |-> body, line |-> 0, cause |-> ""]

\* fmt.Errorf("error decoding batch result at line %d: %w", lineNum, err)
LineError(lineNum, cause) ==
    [nil |-> FALSE, msg |-> "error decoding batch result at line %d: %w", status |-> 0,
     body |-> <<>>, line |-> lineNum, cause |-> cause]

\* return value, nil
Return(value) == [nil |-> FALSE, result |-> value, err |-> NoError]

\* return nil, err
Fail(err) == [nil |-> TRUE, result |-> <<>>, err |-> err]

NoReturn == [nil |-> TRUE, result |-> <<>>, err |-> NoError]

(***************************************************************************)
(* The response handlers: what an operation does with the body of a 200    *)
(* response.                                                               *)
(***************************************************************************)
\* handleGenerateResponse reporting an empty body as the streaming path does
handleGenerateResponseEmptyStream(body) ==
    LET d == Decode(Chunks(body), DecodeGenerateResponse, ZeroGenerateResponse)
    IN IF d.err = "EOF" THEN Fail(Error("empty response stream", ""))
       ELSE IF d.err # "nil" THEN Fail(Error("error decoding response: %w", d.err))
       ELSE Return(d.v)

\* handleGenerateResponse
handleGenerateResponse(body) ==
    LET d == Decode(Chunks(body), DecodeGenerateResponse, ZeroGenerateResponse)
    IN IF d.err # "nil" THEN Fail(Error("error decoding response: %w", d.err))
       ELSE Return(d.v)

\* handleGenerateStream returning the last value of the stream
handleGenerateStreamLast(body) ==
    IF More(Chunks(body))
    THEN LET chunks == Chunks(body)
             d == Decode(<<chunks[Len(chunks)]>>, DecodeGenerateResponse, ZeroGenerateResponse)
         IN IF d.err # "nil" THEN Fail(Error("error decoding streaming response: %w", d.err))
            ELSE Return(d.v)
    ELSE Fail(Error("empty response stream", ""))

\* handleGenerateStream
handleGenerateStream(body) ==
    IF More(Chunks(body))
    THEN LET d == Decode(Chunks(body), DecodeGenerateResponse, ZeroGenerateResponse)
         IN IF d.err # "nil" THEN Fail(Error("error decoding streaming response: %w", d.err))
            ELSE Return(d.v)
    ELSE Fail(Error("empty response stream", ""))

\* handleChatResponse
handleChatResponse(body) ==
    LET d == Decode(Chunks(body), DecodeResponseMessage, ZeroResponseMessage)
    IN IF d.err # "nil" THEN Fail(Error("error decoding response: %w", d.err))
       ELSE Return(d.v)

\* handleChatStream
handleChatStream(body) == Fail(Error("not dealing with streams yet", ""))

\* ChatCompletion without its test of opts.Stream
handleChatCompletionNoStreamTest(stream, body) ==
    LET d == Decode(Chunks(body), DecodeResponseMessageGenerate, ZeroResponseMessageGenerate)
    IN IF d.err # "nil" THEN Fail(Error("error decoding response: %w", d.err))
       ELSE Return(d.v)

\* ChatCompletion after prepareRequest
handleChatCompletion(stream, body) ==
    IF stream THEN Fail(Error("not doing streaming", ""))
    ELSE LET d == Decode(Chunks(body), DecodeResponseMessageGenerate,
                         ZeroResponseMessageGenerate)
         IN IF d.err # "nil" THEN Fail(Error("error decoding response: %w", d.err))
            ELSE Return(d.v)

\* ListModels after prepareGet: the decoder's error is returned as it is
handleListModels(body) ==
    LET d == Decode(Chunks(body), DecodeListModelsResponse, ZeroListModelsResponse)
    IN IF d.err # "nil" THEN Fail(Error("", d.err))
       ELSE [nil |-> Len(d.v.Data) = 0, result |-> d.v.Data, err |-> NoError]

\* CreateBatch, GetBatch and CancelBatch after their request
handleBatch(body) ==
    LET d == Decode(Chunks(body), DecodeBatch, ZeroBatch)
    IN IF d.err # "nil" THEN Fail(Error("error decoding batch response: %w", d.err))
       ELSE Return(d.v)

\* ListBatches after prepareGet
handleListBatches(body) ==
    LET d == Decode(Chunks(body), DecodeListBatchesResponse, ZeroListBatchesResponse)
    IN IF d.err # "nil" THEN Fail(Error("error decoding list batches response: %w", d.err))
       ELSE Return(d.v)

RECURSIVE readResultsPrepend(_, _, _)
\* the loop putting each result in front of the list
readResultsPrepend(chunks, lineNum, results) ==
    IF ~More(chunks) THEN [nil |-> Len(results) = 0, result |-> results, err |-> NoError]
    ELSE LET d == Decode(chunks, DecodeBatchResult, ZeroBatchResult)
         IN IF d.err # "nil" THEN Fail(LineError(lineNum + 1, d.err))
            ELSE readResultsPrepend(d.rest, lineNum + 1, <<d.v>> \o results)

RECURSIVE readResults(_, _, _)
\* the for decoder.More() loop of GetBatchResults
readResults(chunks, lineNum, results) ==
    IF ~More(chunks) THEN [nil |-> Len(results) = 0, result |-> results, err |-> NoError]
    ELSE LET d == Decode(chunks, DecodeBatchResult, ZeroBatchResult)
         IN IF d.err # "nil" THEN Fail(LineError(lineNum + 1, d.err))
            ELSE readResults(d.rest, lineNum + 1, Append(results, d.v))

\* GetBatchResults failing the call when an item of the batch errored
handleBatchResultsItemErrorFails(body) ==
    LET out == readResults(Chunks(body), 0, <<>>)
    IN IF out.err.nil /\ \E i \in 1..Len(out.result) : out.result[i].Result.Error.present
       THEN Fail(Error("batch item errored", ""))
       ELSE out

\* GetBatchResults after prepareGet
handleBatchResults(body) == readResults(Chunks(body), 0, <<>>)

(***************************************************************************)
(* The client (unnamed/part_002), prepareRequest and prepareGet            *)
(* (unnamed/part_000).                                                     *)
(***************************************************************************)
BaseURL == <<"http://localhost:11434">>

\* the timeout NewClient gives its http.Client, in seconds
Timeout == 120

HeaderSettings == {<<"Content-Type", "text/plain">>}
APIKeys == {"secret"}

\* c.headers[k] = v
SetKey(h, k, v) == [kk \in DOMAIN h \cup {k} |-> IF kk = k THEN v ELSE h[kk]]

\* http.Header.Set stores a key in its canonical form
CanonicalKey(k) == IF k = "x-api-key" THEN "X-Api-Key" ELSE k

\* the header of the request: Content-Type on a POST, then every configured
\* header set over it
RequestHeader(method, h) ==
    LET fixed == IF method = "POST" THEN {"Content-Type"} ELSE {}
        configured == {CanonicalKey(k) : k \in DOMAIN h}
    IN [kk \in fixed \cup configured |->
          IF kk \in configured THEN h[CHOOSE k \in DOMAIN h : CanonicalKey(k) = kk]
          ELSE "application/json"]

\* http.NewRequest fails on a URL with a control character
ValidURL(url) == \A i \in 1..Len(url) : url[i] # CTRL

NoBody == [k |-> "none"]
NoRequest == [method |-> "", url |-> <<>>, header |-> <<>>, body |-> NoBody]
NoResponse == [failed |-> FALSE, status |-> 0, body |-> <<>>]

ZeroOp ==
    [name |-> "", opts |-> ZeroRequestOptions, req |-> [Requests |-> <<>>],
     batchID |-> <<>>, limit |-> 0, beforeID |-> <<>>, afterID |-> <<>>]

\* the first half of prepareRequest / prepareGet, up to httpClient.Do(req):
\* encode the body, build the request, set the headers, dispatch
Dispatch(o, method, endpoint, encodable, payload) ==
    /\ op' = o
    /\ IF ~encodable
       THEN /\ ret' = Fail(Error("error marshaling request: %w", "unsupported type"))
            /\ pc' = "done"
            /\ UNCHANGED <<request, nsent>>
       ELSE IF ~ValidURL(baseURL \o endpoint)
       THEN /\ ret' = Fail(Error("error creating request: %w", "invalid URL"))
            /\ pc' = "done"
            /\ UNCHANGED <<request, nsent>>
       ELSE /\ request' = [method |-> method, url |-> baseURL \o endpoint,
                           header |-> RequestHeader(method, headers), body |-> payload]
            /\ nsent' = nsent + 1
            /\ pc' = "inflight"
            /\ UNCHANGED ret
    /\ UNCHANGED <<baseURL, timeout, calls, headers, response, nclosed, codec, berr>>

prepareRequest(o, encodable, payload, endpoint) ==
    Dispatch(o, "POST", endpoint, encodable, payload)

prepareGet(o, endpoint) == Dispatch(o, "GET", endpoint, TRUE, NoBody)

\* Finish with the status test taking every 2xx code as a success
FinishAny2xx(handled) ==
    /\ IF response.failed
       THEN /\ ret' = Fail(Error("error sending request: %w", "transport"))
            /\ UNCHANGED nclosed
       ELSE IF response.status < 200 \/ response.status > 299
       THEN /\ ret' = Fail(StatusError(response.status, response.body))
            /\ nclosed' = nclosed + 1
       ELSE /\ ret' = handled
            /\ nclosed' = nclosed + 1
    /\ pc' = "done"
    /\ UNCHANGED <<baseURL, timeout, calls, headers, op, request, response, nsent, codec, berr>>

\* Finish sending the request once more after a transport failure
FinishRetry(handled) ==
    IF response.failed /\ nsent < 2
    THEN /\ nsent' = nsent + 1
         /\ pc' = "inflight"
         /\ UNCHANGED <<baseURL, timeout, calls, headers, op, request, response, ret, nclosed, codec, berr>>
    ELSE /\ IF response.failed
            THEN /\ ret' = Fail(Error("error sending request: %w", "transport"))
                 /\ UNCHANGED nclosed
            ELSE IF response.status # StatusOK
            THEN /\ ret' = Fail(StatusError(response.status, response.body))
                 /\ nclosed' = nclosed + 1
            ELSE /\ ret' = handled
                 /\ nclosed' = nclosed + 1
         /\ pc' = "done"
         /\ UNCHANGED <<baseURL, timeout, calls, headers, op, request, response, nsent, codec, berr>>

\* Finish with the body of a status other than 200 closed by the operation
\* as well, and the body of a 200 response left open when the handler fails
FinishClosesWrong(handled) ==
    /\ IF response.failed
       THEN /\ ret' = Fail(Error("error sending request: %w", "transport"))
            /\ UNCHANGED nclosed
       ELSE IF response.status # StatusOK
       THEN /\ ret' = Fail(StatusError(response.status, response.body))
            /\ nclosed' = nclosed + 2
       ELSE /\ ret' = handled
            /\ nclosed' = IF handled.err.nil THEN nclosed + 1 ELSE nclosed
    /\ pc' = "done"
    /\ UNCHANGED <<baseURL, timeout, calls, headers, op, request, response, nsent, codec, berr>>

\* the second half of prepareRequest / prepareGet and the rest of the
\* operation: the transport's error, the status check, then the handler under
\* the deferred resp.Body.Close()
Finish(handled) ==
    /\ IF response.failed
       THEN /\ ret' = Fail(Error("error sending request: %w", "transport"))
            /\ UNCHANGED nclosed
       ELSE IF response.status # StatusOK
       THEN /\ ret' = Fail(StatusError(response.status, response.body))
            /\ nclosed' = nclosed + 1
       ELSE /\ ret' = handled
            /\ nclosed' = nclosed + 1
    /\ pc' = "done"
    /\ UNCHANGED <<baseURL, timeout, calls, headers, op, request, response, nsent, codec, berr>>

(***************************************************************************)
(* The operations.  Each public method is two actions: the call up to the  *)
(* dispatch of its request, and its return once the transport answered.    *)
(***************************************************************************)
\* NewClient(baseURL)
Init ==
    /\ baseURL = BaseURL
    /\ timeout = Timeout
    /\ headers = <<>>
    /\ calls = <<>>
    /\ pc = "idle"
    /\ op = ZeroOp
    /\ request = NoRequest
    /\ response = NoResponse
    /\ ret = NoReturn
    /\ nsent = 0
    /\ nclosed = 0
    /\ codec = CodecIdle
    /\ berr = BerrIdle

\* SetHeader(k, v)
SetHeader ==
    /\ pc = "idle"
    /\ \E kv \in HeaderSettings : headers' = SetKey(headers, kv[1], kv[2])
    /\ UNCHANGED <<baseURL, timeout, calls, pc, op, request, response, ret, nsent, nclosed,
                 codec, berr>>

\* SetAPIKey(k)
SetAPIKey ==
    /\ pc = "idle"
    /\ \E key \in APIKeys : headers' = SetKey(headers, "x-api-key", key)
    /\ UNCHANGED <<baseURL, timeout, calls, pc, op, request, response, ret, nsent, nclosed,
                 codec, berr>>

Generate ==
    /\ pc = "idle"
    /\ \E opts \in RequestOptionsSamples :
           prepareRequest([ZeroOp EXCEPT !.name = "Generate", !.opts = opts],
                          RequestOptionsEncodable(opts), MarshalRequestOptions(opts),
                          <<"/api/generate">>)

GenerateReturn ==
    /\ pc = "responded"
    /\ op.name = "Generate"
    /\ Finish(IF op.opts.Stream THEN handleGenerateStream(response.body)
                          ELSE handleGenerateResponse(response.body))

Chat ==
    /\ pc = "idle"
    /\ \E opts \in RequestOptionsSamples :
           prepareRequest([ZeroOp EXCEPT !.name = "Chat", !.opts = opts],
                          RequestOptionsEncodable(opts), MarshalRequestOptions(opts),
                          <<"/api/chat">>)

ChatReturn ==
    /\ pc = "responded"
    /\ op.name = "Chat"
    /\ Finish(IF op.opts.Stream THEN handleChatStream(response.body)
                      ELSE handleChatResponse(response.body))

ChatCompletion ==
    /\ pc = "idle"
    /\ \E opts \in RequestOptionsSamples :
           prepareRequest([ZeroOp EXCEPT !.name = "ChatCompletion", !.opts = opts],
                          RequestOptionsEncodable(opts), MarshalRequestOptions(opts),
                          <<"/chat/completions">>)

ChatCompletionReturn ==
    /\ pc = "responded"
    /\ op.name = "ChatCompletion"
    /\ Finish(handleChatCompletion(op.opts.Stream, response.body))

ListModels ==
    /\ pc = "idle"
    /\ prepareGet([ZeroOp EXCEPT !.name = "ListModels"], <<"/models">>)

ListModelsReturn ==
    /\ pc = "responded"
    /\ op.name = "ListModels"
    /\ Finish(handleListModels(response.body))

CreateBatch ==
    /\ pc = "idle"
    /\ \E req \in CreateBatchRequestSamples :
           prepareRequest([ZeroOp EXCEPT !.name = "CreateBatch", !.req = req],
                          CreateBatchRequestEncodable(req), MarshalCreateBatchRequest(req),
                          <<"/messages/batches">>)

CreateBatchReturn ==
    /\ pc = "responded"
    /\ op.name = "CreateBatch"
    /\ Finish(handleBatch(response.body))

GetBatch ==
    /\ pc = "idle"
    /\ \E batchID \in BatchIDs :
           prepareGet([ZeroOp EXCEPT !.name = "GetBatch", !.batchID = batchID],
                      <<"/messages/batches/">> \o batchID)

GetBatchReturn ==
    /\ pc = "responded"
    /\ op.name = "GetBatch"
    /\ Finish(handleBatch(response.body))

\* the query parameters with the limit sent whenever it is not negative
ListBatchesParamsLimitZero(limit, beforeID, afterID) ==
    (IF limit >= 0 THEN << <<"limit=", ToString(limit)>> >> ELSE <<>>)
    \o (IF beforeID # <<>> THEN << <<"before_id=">> \o beforeID >> ELSE <<>>)
    \o (IF afterID # <<>> THEN << <<"after_id=">> \o afterID >> ELSE <<>>)

\* the query parameters of ListBatches, in the order of its three if-statements
ListBatchesParams(limit, beforeID, afterID) ==
    (IF limit > 0 THEN << <<"limit=", ToString(limit)>> >> ELSE <<>>)
    \o (IF beforeID # <<>> THEN << <<"before_id=">> \o beforeID >> ELSE <<>>)
    \o (IF afterID # <<>> THEN << <<"after_id=">> \o afterID >> ELSE <<>>)

RECURSIVE JoinParams(_, _, _)
\* the loop appending "&" and params[i] for i = 1 .. len(params)-1
JoinParams(endpoint, params, i) ==
    IF i > Len(params) THEN endpoint
    ELSE JoinParams(endpoint \o <<"&">> \o params[i], params, i + 1)

\* the endpoint ListBatches asks for
ListBatchesEndpoint(limit, beforeID, afterID) ==
    LET params == ListBatchesParams(limit, beforeID, afterID)
    IN IF Len(params) > 0
       THEN JoinParams(<<"/messages/batches">> \o <<"?">> \o params[1], params, 2)
       ELSE <<"/messages/batches">>

ListBatches ==
    /\ pc = "idle"
    /\ \E limit \in Limits, beforeID \in CursorIDs, afterID \in CursorIDs :
           prepareGet([ZeroOp EXCEPT !.name = "ListBatches", !.limit = limit,
                                     !.beforeID = beforeID, !.afterID = afterID],
                      ListBatchesEndpoint(limit, beforeID, afterID))

ListBatchesReturn ==
    /\ pc = "responded"
    /\ op.name = "ListBatches"
    /\ Finish(handleListBatches(response.body))

\* CancelBatch with a body the encoder rejects
CancelBatchUnencodable ==
    /\ pc = "idle"
    /\ \E batchID \in BatchIDs :
           prepareRequest([ZeroOp EXCEPT !.name = "CancelBatch", !.batchID = batchID],
                          FALSE, JNull, <<"/messages/batches/">> \o batchID \o <<"/cancel">>)

CancelBatch ==
    /\ pc = "idle"
    /\ \E batchID \in BatchIDs :
           prepareRequest([ZeroOp EXCEPT !.name = "CancelBatch", !.batchID = batchID],
                          TRUE, JNull, <<"/messages/batches/">> \o batchID \o <<"/cancel">>)

CancelBatchReturn ==
    /\ pc = "responded"
    /\ op.name = "CancelBatch"
    /\ Finish(handleBatch(response.body))

GetBatchResults ==
    /\ pc = "idle"
    /\ \E batchID \in BatchIDs :
           prepareGet([ZeroOp EXCEPT !.name = "GetBatchResults", !.batchID = batchID],
                      <<"/messages/batches/">> \o batchID \o <<"/results">>)

GetBatchResultsReturn ==
    /\ pc = "responded"
    /\ op.name = "GetBatchResults"
    /\ Finish(handleBatchResults(response.body))

\* the bodies the provider may answer to the operation in progress: a results
\* stream to a served GetBatchResults, one document (or none) otherwise
BodiesFor(name, status) ==
    IF name = "GetBatchResults" /\ status = StatusOK THEN ResultsBodies ELSE SingleBodies

\* httpClient.Do(req): the transport fails, or the provider answers
HttpDo ==
    /\ pc = "inflight"
    /\ \/ response' = [failed |-> TRUE, status |-> 0, body |-> <<>>]
       \/ \E status \in StatusCodes : \E body \in BodiesFor(op.name, status) :
             response' = [failed |-> FALSE, status |-> status, body |-> body]
    /\ pc' = "responded"
    /\ UNCHANGED <<baseURL, timeout, calls, headers, op, request, ret, nsent, nclosed, codec, berr>>

\* the caller goes on to its next call
NextCall ==
    /\ pc = "done"
    /\ pc' = "idle"
    /\ op' = ZeroOp
    /\ request' = NoRequest
    /\ response' = NoResponse
    /\ ret' = NoReturn
    /\ nsent' = 0
    /\ nclosed' = 0
    /\ UNCHANGED <<baseURL, timeout, calls, headers, codec, berr>>

Next ==
    \/ SetHeader \/ SetAPIKey
    \/ Generate \/ GenerateReturn
    \/ Chat \/ ChatReturn
    \/ ChatCompletion \/ ChatCompletionReturn
    \/ ListModels \/ ListModelsReturn
    \/ CreateBatch \/ CreateBatchReturn
    \/ GetBatch \/ GetBatchReturn
    \/ ListBatches \/ ListBatchesReturn
    \/ CancelBatch \/ CancelBatchReturn
    \/ GetBatchResults \/ GetBatchResultsReturn
    \/ HttpDo
    \/ NextCall

Spec == Init /\ [][Next]_vars

(***************************************************************************)
(* Claims about the Message codec (checked under SpecCodec).               *)
(***************************************************************************)
Encoded == codec.stage \in {"encoded", "decoded"}

ValidUTF8(s) == \A i \in 1..Len(s) : s[i] # BADBYTE

\* the image part the wire must carry for the blob img
ExpectedImagePart(img) ==
    [k |-> "object",
     f |-> [type |-> [k |-> "string", s |-> <<"image">>],
            source |-> [k |-> "object",
                        f |-> [type |-> [k |-> "string", s |-> <<"base64">>],
                               media_type |-> [k |-> "string", s |-> <<"image/jpeg">>],
                               data |-> MarshalString(img)]]]]

\* C1: a message with one or more images is encoded with "content" an array
\* of exactly 1 + len(images) parts, the text part first and then one image
\* part per image in input order; a message with no images is encoded with
\* "content" a flat string.
C1_StructuredContent ==
    Encoded =>
        LET m == codec.msg
            c == codec.wire.f.content
        IN IF Len(m.Images) = 0
           THEN c.k = "string" /\ c = MarshalString(m.Content)
           ELSE /\ c.k = "array"
                /\ Len(c.a) = 1 + Len(m.Images)
                /\ c.a[1] = [k |-> "object",
                             f |-> [type |-> [k |-> "string", s |-> <<"text">>],
                                    text |-> MarshalString(m.Content)]]
                /\ \A i \in 1..Len(m.Images) : c.a[i + 1] = ExpectedImagePart(m.Images[i])

\* C1 witness: a message with two different images has been encoded
C1_Witness ==
    /\ Encoded
    /\ Len(codec.msg.Images) = 2
    /\ codec.msg.Images[1] # codec.msg.Images[2]
    /\ codec.msg.Content # <<>>
    /\ Len(codec.wire.f.content.a) = 3

\* C8 as stated: every message with empty images round-trips its Content
\* through encode and decode, "content" being written as a flat string.
C8_RoundTripEveryContent ==
    (codec.stage = "decoded" /\ Len(codec.msg.Images) = 0) =>
        /\ codec.wire.f.content.k = "string"
        /\ codec.back.ok
        /\ codec.back.v.Content = codec.msg.Content

\* C8 (amended): every message with empty images whose Content is valid
\* UTF-8 round-trips its Content through encode and decode, "content" being
\* written as a flat string; bytes that are not valid UTF-8 come back as U+FFFD.
C8_RoundTripValidUTF8 ==
    (codec.stage = "decoded" /\ Len(codec.msg.Images) = 0) =>
        /\ codec.wire.f.content.k = "string"
        /\ codec.back.ok
        /\ ValidUTF8(codec.msg.Content) => codec.back.v.Content = codec.msg.Content
        /\ Len(codec.back.v.Content) = Len(codec.msg.Content)
        /\ \A i \in 1..Len(codec.msg.Content) :
              codec.back.v.Content[i] =
                 IF codec.msg.Content[i] = BADBYTE THEN REPLCHAR ELSE codec.msg.Content[i]

\* C8 witness: a message without images whose Content holds a character that
\* must be escaped has been encoded and decoded back
C8_Witness ==
    /\ codec.stage = "decoded"
    /\ Len(codec.msg.Images) = 0
    /\ codec.msg.Content = <<"a", DQUOTE>>
    /\ codec.wire.f.content.s = <<"a", BSLASH, DQUOTE>>
    /\ codec.back.v.Content = codec.msg.Content

(***************************************************************************)
(* Claims about GetErrorMessage (checked under SpecBatchError).            *)
(***************************************************************************)
\* C6: GetErrorMessage returns the nested error's message if the nested
\* error is present and its message is non-empty; otherwise the top-level
\* message if non-empty; otherwise the nested error's type (if present and
\* non-empty); otherwise the top-level type.
C6_MessagePriority ==
    berr.stage = "resolved" =>
        LET be == berr.be
            nestedMsg == be.Error.present /\ be.Error.Message # <<>>
            topMsg == be.Message # <<>>
            nestedType == be.Error.present /\ be.Error.Type # <<>>
        IN /\ nestedMsg => berr.out = be.Error.Message
           /\ (~nestedMsg /\ topMsg) => berr.out = be.Message
           /\ (~nestedMsg /\ ~topMsg /\ nestedType) => berr.out = be.Error.Type
           /\ (~nestedMsg /\ ~topMsg /\ ~nestedType) => berr.out = be.Type

\* C6 witness: all four strings are set and the nested message was returned
C6_Witness ==
    /\ berr.stage = "resolved"
    /\ berr.be.Error.present
    /\ berr.be.Type # <<>> /\ berr.be.Message # <<>> /\ berr.be.Error.Type # <<>>
    /\ berr.be.Error.Message = <<"overloaded">>
    /\ berr.out = <<"overloaded">>

(***************************************************************************)
(* Claims about the operations (checked under Spec).                       *)
(***************************************************************************)
\* the operation name has returned
Returned(name) == pc = "done" /\ op.name = name

\* the provider answered the request of the operation with status 200
Served == nsent = 1 /\ ~response.failed /\ response.status = 200

\* a line of a results stream holding exactly one decodable batch result
WellFormedLine(line) ==
    /\ Len(line) = 1
    /\ line[1].c = "value"
    /\ line[1].v.k = "object"
    /\ DecodeBatchResult(line[1].v).ok

\* a line holding text that is not JSON
MalformedLine(line) == \E i \in 1..Len(line) : line[i].c = "garbage"

\* the custom id written on a well-formed line
CustomIDOf(line) == unquote(line[1].v.f.custom_id.s)

\* the result type written on a well-formed line
TypeOf(line) == unquote(line[1].v.f.result.f.type.s)

RECURSIVE TextOfParts(_)
\* the text parts of a structured content, recombined
TextOfParts(parts) ==
    IF parts = <<>> THEN <<>>
    ELSE (IF Head(parts).f.type.s = <<"text">> THEN unquote(Head(parts).f.text.s) ELSE <<>>)
         \o TextOfParts(Tail(parts))

\* the content of the message a chat or chat-completion body carries
ContentOf(name, doc) ==
    IF name = "Chat" THEN doc.f.message.f.content
    ELSE doc.f.choices.a[1].f.message.f.content

\* the message an operation returned
MessageOf(name, result) ==
    IF name = "Chat" THEN result.Message ELSE result.Choices[1].Message

\* the body is one chat (chat-completion) document
CarriesMessage(name, body) ==
    /\ Len(body) = 1 /\ Len(body[1]) = 1 /\ body[1][1].c = "value"
    /\ body[1][1].v.k = "object"
    /\ IF name = "Chat" THEN "message" \in DOMAIN body[1][1].v.f
       ELSE "choices" \in DOMAIN body[1][1].v.f

\* C2 as stated: the decode of a message accepts both shapes of "content": a
\* flat string is taken as Content, and a structured array is decoded without
\* error, its text parts recombined into Content; Chat and ChatCompletion
\* return a result, not a decode error, on such a response.
C2_DecodeAcceptsBothShapes ==
    \A name \in {"Chat", "ChatCompletion"} :
        (Returned(name) /\ Served /\ ~op.opts.Stream /\ CarriesMessage(name, response.body)) =>
            LET content == ContentOf(name, response.body[1][1].v)
            IN /\ ret.err.nil
               /\ ~ret.nil
               /\ content.k = "string" =>
                     MessageOf(name, ret.result).Content = unquote(content.s)
               /\ content.k = "array" =>
                     MessageOf(name, ret.result).Content = TextOfParts(content.a)

\* C3: GetBatchResults on a 200 response whose body is N well-formed result
\* lines returns no error and exactly N results, the i-th being the decode of
\* the i-th value of the stream; the custom ids returned are those of the
\* stream, each as many times.
C3_ResultsInStreamOrder ==
    (Returned("GetBatchResults") /\ Served
        /\ \A i \in 1..Len(response.body) : WellFormedLine(response.body[i])) =>
        /\ ret.err.nil
        /\ Len(ret.result) = Len(response.body)
        /\ \A i \in 1..Len(response.body) :
              /\ ret.result[i] = DecodeBatchResult(response.body[i][1].v).v
              /\ ret.result[i].CustomID = CustomIDOf(response.body[i])
              /\ ret.result[i].Result.Type = TypeOf(response.body[i])
        /\ \A id \in {<<"a">>, <<"b">>, <<"c">>, <<"d">>} :
              Cardinality({i \in 1..Len(ret.result) : ret.result[i].CustomID = id})
                = Cardinality({i \in 1..Len(response.body) :
                                 CustomIDOf(response.body[i]) = id})

\* C3 witness: a stream of three results, the first two with different custom
\* ids and the last a repeat of the first, was returned whole
C3_Witness ==
    /\ Returned("GetBatchResults") /\ Served
    /\ Len(response.body) = 3
    /\ \A i \in 1..3 : WellFormedLine(response.body[i])
    /\ Len(ret.result) = 3
    /\ ret.result[1].CustomID = <<"b">>
    /\ ret.result[2].CustomID = <<"a">>
    /\ ret.result[3].CustomID = <<"b">>

\* C4 as stated: if lines 1..K-1 of the body are well-formed results and line
\* K is malformed, GetBatchResults returns an error that names line K and
\* returns no results.
C4_AllOrNothing ==
    (Returned("GetBatchResults") /\ Served) =>
        \A K \in 1..Len(response.body) :
            (/\ \A j \in 1..(K - 1) : WellFormedLine(response.body[j])
             /\ MalformedLine(response.body[K])) =>
                /\ ~ret.err.nil
                /\ ret.nil
                /\ ret.err.line = K

\* C5: a per-item batch error is data: on a 200 response whose lines are all
\* well-formed GetBatchResults succeeds whatever the result types, each errored
\* item is in the list with its error detail; and the call fails only when no
\* response was obtained (the request could not be built or sent), the status
\* is not 200, or a line does not decode.
C5_ItemErrorsAreData ==
    Returned("GetBatchResults") =>
        /\ (Served /\ \A i \in 1..Len(response.body) : WellFormedLine(response.body[i])) =>
              /\ ret.err.nil
              /\ \A i \in 1..Len(response.body) :
                    TypeOf(response.body[i]) = <<"errored">> =>
                        /\ ret.result[i].Result.Type = <<"errored">>
                        /\ ret.result[i].Result.Error.present
                        /\ ret.result[i].Result.Error.v.Error.present
                        /\ ret.result[i].Result.Error.v.Error.Message
                             = unquote(response.body[i][1].v.f.result.f.error.f.error.f.message.s)
        /\ ~ret.err.nil =>
              \/ nsent = 0
              \/ response.failed
              \/ response.status # 200
              \/ \E i \in 1..Len(response.body) : ~WellFormedLine(response.body[i])

\* C5 witness: a list holding a succeeded and an errored item was returned
C5_Witness ==
    /\ Returned("GetBatchResults") /\ Served
    /\ ret.err.nil
    /\ Len(ret.result) = 2
    /\ ret.result[1].Result.Type = <<"succeeded">>
    /\ ret.result[2].Result.Type = <<"errored">>
    /\ ret.result[2].Result.Error.v.Error.Message = <<"max_tokens: too large">>

C9_QueryString ==
    (op.name = "ListBatches" /\ nsent = 1) =>
        LET hasLimit == op.limit > 0
            hasBefore == op.beforeID # <<>>
            hasAfter == op.afterID # <<>>
            limitPart == IF hasLimit THEN <<"?", "limit=", ToString(op.limit)>> ELSE <<>>
            beforePart == IF hasBefore
                          THEN <<IF hasLimit THEN "&" ELSE "?", "before_id=">> \o op.beforeID
                          ELSE <<>>
            afterPart == IF hasAfter
                         THEN <<IF hasLimit \/ hasBefore THEN "&" ELSE "?", "after_id=">>
                              \o op.afterID
                         ELSE <<>>
        IN /\ request.method = "GET"
           /\ request.url = BaseURL \o <<"/messages/batches">> \o limitPart \o beforePart
                            \o afterPart
           /\ (~hasLimit /\ ~hasBefore /\ ~hasAfter) =>
                 \A i \in 1..Len(request.url) : request.url[i] # "?"

\* C9 witness: ListBatches(0, before, after) was dispatched without a limit
C9_Witness ==
    /\ op.name = "ListBatches" /\ nsent = 1
    /\ op.limit = 0
    /\ request.url = BaseURL \o <<"/messages/batches", "?", "before_id=", "msgbatch_1",
                                  "&", "after_id=", "msgbatch_1">>

\* C10: with the stream flag set Chat and ChatCompletion never return a
\* result: every outcome is an error, and on a 200 response it is the fixed
\* error of the operation whatever the body holds.
C10_StreamNeverReturnsResult ==
    \A name \in {"Chat", "ChatCompletion"} :
        (Returned(name) /\ op.opts.Stream) =>
            /\ ret.nil
            /\ ~ret.err.nil
            /\ Served =>
                  ret.err = Error(IF name = "Chat" THEN "not dealing with streams yet"
                                  ELSE "not doing streaming", "")

\* C10 witness: ChatCompletion with the stream flag set was answered 200
\* with a decodable chat-completion document and returned the fixed error
C10_Witness ==
    /\ Returned("ChatCompletion") /\ op.opts.Stream /\ Served
    /\ response.body = << <<Value(CompletionDoc(AssistantFlat, UsagePlain))>> >>
    /\ ret.nil
    /\ ret.err.msg = "not doing streaming"

\* C11 as stated: when Chat or ChatCompletion is called with the stream flag
\* set, no HTTP request is dispatched to the provider at any point of the
\* call.
C11_StreamDispatchesNothing ==
    \A name \in {"Chat", "ChatCompletion"} :
        (op.name = name /\ op.opts.Stream) => nsent = 0

\* the body starts with a JSON value
StartsWithValue(body) == Chunks(body) # <<>> /\ Head(Chunks(body)).c = "value"

\* C12: Generate with the stream flag set, on a 200 response whose body
\* starts with a JSON value, returns the decode of that first value (a result
\* when the value decodes as a GenerateResponse, the decode error when it does
\* not), whatever follows it in the body, malformed data included.
C12_StreamFirstValueOnly ==
    (Returned("Generate") /\ Served /\ op.opts.Stream /\ StartsWithValue(response.body)) =>
        LET d == DecodeGenerateResponse(Head(Chunks(response.body)).v)
        IN IF d.ok
           THEN ret.err.nil /\ ~ret.nil /\ ret.result = d.v
           ELSE ret.nil /\ ret.err = Error("error decoding streaming response: %w", "type")

\* C12 witness: the first value of a stream was returned although text that
\* is not JSON followed it
C12_Witness ==
    /\ Returned("Generate") /\ Served /\ op.opts.Stream
    /\ response.body = << <<Value(GenerateDoc)>>, <<Garbage("other")>> >>
    /\ ret.err.nil
    /\ ret.result.Response = <<"scattering">>
    /\ ~ret.result.Done

\* C13: on a 200 response with an empty body Generate fails and returns no
\* result: with the stream flag set the error is "empty response stream",
\* with the flag unset it is the decode error of the end of input; and no
\* call other than a streaming Generate returns "empty response stream".
C13_EmptyBody ==
    /\ (Returned("Generate") /\ Served /\ response.body = <<>>) =>
          /\ ret.nil
          /\ ret.err = IF op.opts.Stream THEN Error("empty response stream", "")
                       ELSE Error("error decoding response: %w", "EOF")
    /\ (pc = "done" /\ ret.err.msg = "empty response stream") =>
          op.name = "Generate" /\ op.opts.Stream

\* C13 witness: a Generate without the stream flag was answered 200 with an
\* empty body and returned the decode error
C13_Witness ==
    /\ Returned("Generate") /\ Served /\ ~op.opts.Stream
    /\ response.body = <<>>
    /\ ret.nil
    /\ ret.err.msg = "error decoding response: %w"
    /\ ret.err.cause = "EOF"

\* C14: no operation retries or follows up: one call of an operation hands at
\* most one request to the HTTP client, whatever the outcome, and once the
\* client has answered (a transport failure, a status other than 200, a body
\* that does not decode, a page with has_more = true) the very next step of
\* the call is its return, with no further request.
C14_NoRetry ==
    /\ [](nsent <= 1)
    /\ [][pc = "responded" => (pc' = "done" /\ nsent' = nsent)]_vars

\* C14 witness: ListBatches returned a page with has_more = true after its
\* one request
C14_Witness ==
    /\ Returned("ListBatches") /\ Served
    /\ ret.err.nil
    /\ ret.result.HasMore
    /\ Len(ret.result.Data) = 1
    /\ nsent = 1

\* C15 as stated: for every set of configured headers, every POST request
\* carries Content-Type: application/json and every configured header with
\* its configured value, and every GET request carries every configured
\* header with its configured value.
C15_HeadersOnEveryRequest ==
    nsent = 1 =>
        /\ request.method = "POST" =>
              /\ "Content-Type" \in DOMAIN request.header
              /\ request.header["Content-Type"] = "application/json"
        /\ \A k \in DOMAIN headers :
              /\ CanonicalKey(k) \in DOMAIN request.header
              /\ request.header[CanonicalKey(k)] = headers[k]

\* the envelope a JSON document has the shape of, by the key only it carries
EnvelopeOf(doc) ==
    IF doc.k # "object" THEN "none"
    ELSE IF "response" \in DOMAIN doc.f THEN "Generate"
    ELSE IF "message" \in DOMAIN doc.f THEN "Chat"
    ELSE IF "choices" \in DOMAIN doc.f THEN "ChatCompletion"
    ELSE "none"

\* C16 as stated: a 200 response whose body is a well-formed JSON document in
\* the shape of the envelope of a different operation makes Generate, Chat
\* and ChatCompletion return a decode error and no result.
C16_ForeignEnvelopeIsError ==
    \A name \in {"Generate", "Chat", "ChatCompletion"} :
        (/\ Returned(name) /\ Served /\ ~op.opts.Stream
         /\ StartsWithValue(response.body)
         /\ EnvelopeOf(Head(Chunks(response.body)).v) \in
               {"Generate", "Chat", "ChatCompletion"} \ {name}) =>
            /\ ret.nil
            /\ ~ret.err.nil

\* the usage block of a chat-completion body has no prompt_tokens_details,
\* or has one without cached_tokens
LacksCachedTokens(doc) ==
    /\ EnvelopeOf(doc) = "ChatCompletion"
    /\ "usage" \in DOMAIN doc.f
    /\ doc.f.usage.k = "object"
    /\ \/ "prompt_tokens_details" \notin DOMAIN doc.f.usage.f
       \/ /\ doc.f.usage.f.prompt_tokens_details.k = "object"
          /\ "cached_tokens" \notin DOMAIN doc.f.usage.f.prompt_tokens_details.f

\* C17 as stated: for every 200 response to ChatCompletion whose usage block
\* has no prompt_tokens_details, or no cached_tokens in it, the decode
\* succeeds and usage.prompt_tokens_details.cached_tokens of the result is a
\* defined value equal to 0.
C17_CachedTokensDefaultZero ==
    (/\ Returned("ChatCompletion") /\ Served /\ ~op.opts.Stream
     /\ CarriesMessage("ChatCompletion", response.body)
     /\ response.body[1][1].v.f.choices.a[1].f.message.f.content.k = "string"
     /\ LacksCachedTokens(response.body[1][1].v)) =>
        /\ ret.err.nil
        /\ ~ret.nil
        /\ ret.result.Usage.PromptTokensDetails.present
        /\ ret.result.Usage.PromptTokensDetails.v.CachedTokens = 0

\* the field of a RequestOptions written under the key kk is at its empty or
\* zero value
FieldIsZero(o, kk) ==
    CASE kk = "model" -> o.Model = <<>>
      [] kk = "prompt" -> o.Prompt = <<>>
      [] kk = "system" -> o.System = <<>>
      [] kk = "context" -> Len(o.Context) = 0
      [] kk = "format" -> o.Format = <<>>
      [] kk = "raw" -> ~o.Raw
      [] kk = "images" -> Len(o.Images) = 0
      [] kk = "stream" -> ~o.Stream
      [] kk = "messages" -> Len(o.Messages) = 0
      [] kk = "options" -> ~o.Options.present
      [] kk = "think" -> ~o.Think
      [] kk = "tools" -> Len(o.Tools) = 0
      [] kk = "tool_choice" -> o.ToolChoice = <<>>
      [] OTHER -> FALSE

\* C18 as stated: the payload sent by Generate, Chat and ChatCompletion holds
\* a key for a field of the RequestOptions only when that field is not at its
\* empty or zero value.
C18_ZeroFieldsOmitted ==
    \A name \in {"Generate", "Chat", "ChatCompletion"} :
        (op.name = name /\ nsent = 1) =>
            /\ request.body.k = "object"
            /\ \A kk \in DOMAIN request.body.f : ~FieldIsZero(op.opts, kk)

(***************************************************************************)
(* Concurrent callers of one client.  Each caller runs one request         *)
(* operation through the steps of prepareRequest / prepareGet that read    *)
(* the client: the base URL when the request is built, the header map when *)
(* the headers are set.  SetHeader and SetAPIKey are called only before    *)
(* the first request operation starts.                                     *)
(***************************************************************************)
NumCallers == 2         \* concurrent callers of the client

Callers == 1..NumCallers

\* the request operations the callers run: a POST and two GETs
ConcurrentOps ==
    {[name |-> "Generate", method |-> "POST", endpoint |-> <<"/api/generate">>],
     [name |-> "ListModels", method |-> "GET", endpoint |-> <<"/models">>],
     [name |-> "GetBatch", method |-> "GET", endpoint |-> <<"/messages/batches/", "msgbatch_1">>]}

IdleCall ==
    [pc |-> "idle", name |-> "", method |-> "", endpoint |-> <<>>, url |-> <<>>,
     header |-> <<>>]

otherVars == <<pc, op, request, response, ret, nsent, nclosed, codec, berr>>

\* NewClient(baseURL), and no caller yet
ConcurrentInit ==
    /\ baseURL = BaseURL
    /\ timeout = Timeout
    /\ headers = <<>>
    /\ calls = [started |-> FALSE, of |-> [c \in Callers |-> IdleCall]]
    /\ pc = "off" /\ op = <<>> /\ request = <<>> /\ response = <<>> /\ ret = <<>>
    /\ nsent = 0 /\ nclosed = 0
    /\ codec = CodecIdle
    /\ berr = BerrIdle

\* SetHeader(k, v) before the first request operation
ConfigureHeader ==
    /\ ~calls.started
    /\ \E kv \in HeaderSettings : headers' = SetKey(headers, kv[1], kv[2])
    /\ UNCHANGED <<baseURL, timeout, calls, otherVars>>

\* SetAPIKey(k) before the first request operation
ConfigureAPIKey ==
    /\ ~calls.started
    /\ \E key \in APIKeys : headers' = SetKey(headers, "x-api-key", key)
    /\ UNCHANGED <<baseURL, timeout, calls, otherVars>>

\* a caller enters a request operation
BeginCall(c) ==
    /\ calls.of[c].pc = "idle"
    /\ \E o \in ConcurrentOps :
          calls' = [started |-> TRUE,
                    of |-> [calls.of EXCEPT ![c] =
                              [IdleCall EXCEPT !.pc = "build", !.name = o.name,
                                               !.method = o.method,
                                               !.endpoint = o.endpoint]]]
    /\ UNCHANGED <<baseURL, timeout, headers, otherVars>>

\* http.NewRequest(method, c.baseURL + endpoint, ...): the read of c.baseURL
NewRequest(c) ==
    /\ calls.of[c].pc = "build"
    /\ calls' = [calls EXCEPT !.of[c].url = baseURL \o calls.of[c].endpoint,
                              !.of[c].pc = "headers"]
    /\ UNCHANGED <<baseURL, timeout, headers, otherVars>>

\* the header step storing Content-Type in the client's own header map
SetRequestHeadersIntoClient(c) ==
    /\ calls.of[c].pc = "headers"
    /\ headers' = SetKey(headers, "Content-Type", "application/json")
    /\ calls' = [calls EXCEPT !.of[c].header = RequestHeader(calls.of[c].method, headers'),
                              !.of[c].pc = "send"]
    /\ UNCHANGED <<baseURL, timeout, otherVars>>

\* req.Header.Set of Content-Type (POST) and the loop over c.headers: the
\* read of the header map
SetRequestHeaders(c) ==
    /\ calls.of[c].pc = "headers"
    /\ calls' = [calls EXCEPT !.of[c].header = RequestHeader(calls.of[c].method, headers),
                              !.of[c].pc = "send"]
    /\ UNCHANGED <<baseURL, timeout, headers, otherVars>>

\* c.httpClient.Do(req) and the rest of the operation, which read nothing of
\* the client but the http.Client itself
DoAndReturn(c) ==
    /\ calls.of[c].pc = "send"
    /\ calls' = [calls EXCEPT !.of[c].pc = "done"]
    /\ UNCHANGED <<baseURL, timeout, headers, otherVars>>

ConcurrentNext ==
    \/ ConfigureHeader
    \/ ConfigureAPIKey
    \/ \E c \in Callers : BeginCall(c)
    \/ \E c \in Callers : NewRequest(c)
    \/ \E c \in Callers : SetRequestHeaders(c)
    \/ \E c \in Callers : DoAndReturn(c)

SpecConcurrent == ConcurrentInit /\ [][ConcurrentNext]_vars

\* C19: no step of a request operation writes the client's shared state
\* (base address, timeout, header map): once the first request operation has
\* started, with SetHeader / SetAPIKey called only before, the shared state
\* never changes in any interleaving of the callers, and every request is
\* built from the same base address and carries the same configured headers.
C19_SharedStateReadOnly ==
    /\ [][calls' # calls =>
            (baseURL' = baseURL /\ timeout' = timeout /\ headers' = headers)]_vars
    /\ [][calls.started =>
            (baseURL' = baseURL /\ timeout' = timeout /\ headers' = headers)]_vars
    /\ [](\A c \in Callers :
            calls.of[c].pc \in {"send", "done"} =>
               /\ calls.of[c].url = baseURL \o calls.of[c].endpoint
               /\ calls.of[c].header = RequestHeader(calls.of[c].method, headers)
               /\ \A k \in DOMAIN headers :
                     calls.of[c].header[CanonicalKey(k)] = headers[k])

\* C19 witness: with an API key configured, one caller has finished a POST
\* while another has its GET ready to send, both carrying the key
C19_Witness ==
    /\ calls.started
    /\ calls.of[1].pc = "done" /\ calls.of[1].method = "POST"
    /\ calls.of[2].pc = "send" /\ calls.of[2].method = "GET"
    /\ DOMAIN headers = {"x-api-key"}
    /\ calls.of[1].header["X-Api-Key"] = "secret"
    /\ calls.of[2].header["X-Api-Key"] = "secret"
    /\ calls.of[1].header["Content-Type"] = "application/json"

\* C20: a POST with a nil body is legal: CancelBatch never fails at the
\* encode step; the one request it dispatches is a POST to the cancel
\* endpoint of the batch whose body is the JSON value null; and on a 200
\* response holding a batch document it returns that batch decoded, right
\* after that single POST.
C20_NilBodyPost ==
    op.name = "CancelBatch" =>
        /\ ret.err.msg # "error marshaling request: %w"
        /\ nsent <= 1
        /\ nsent = 1 =>
              /\ request.method = "POST"
              /\ request.body = JNull
              /\ request.url = baseURL \o <<"/messages/batches/">> \o op.batchID
                                 \o <<"/cancel">>
        /\ (/\ pc = "done" /\ Served /\ StartsWithValue(response.body)
            /\ DecodeBatch(Head(Chunks(response.body)).v).ok) =>
              /\ ret.err.nil
              /\ ~ret.nil
              /\ ret.result = DecodeBatch(Head(Chunks(response.body)).v).v

\* C20 witness: CancelBatch sent null, was answered 200 with a batch still in
\* progress whose cancellation was initiated, and returned that batch
C20_Witness ==
    /\ Returned("CancelBatch") /\ Served
    /\ request.body = JNull
    /\ response.body = << <<Value(BatchDoc)>> >>
    /\ ret.err.nil
    /\ ret.result.ID = <<"msgbatch_1">>
    /\ ret.result.ProcessingStatus = <<"in_progress">>
    /\ ret.result.CancelInitiatedAt.present
    /\ nsent = 1

\* C21: every response body the client obtains is closed exactly once before
\* the operation returns: no body is closed while the request is still out,
\* an operation that obtained a response (whatever its status, and whether
\* the body was decoded, failed to decode or was skipped for streaming) has
\* returned with one call of Close, one that obtained none has returned with
\* no call of Close, and on a status other than 200 the caller gets no result.
C21_BodyClosedOnce ==
    /\ nclosed <= 1
    /\ pc \in {"idle", "inflight", "responded"} => nclosed = 0
    /\ pc = "done" =>
          /\ nclosed = (IF nsent = 1 /\ ~response.failed THEN 1 ELSE 0)
          /\ (nsent = 1 /\ ~response.failed /\ response.status # StatusOK) => ret.nil

\* C21 witness: Chat with the stream flag set was answered 200, skipped the
\* decode, and returned with the body closed once
C21_Witness ==
    /\ Returned("Chat") /\ Served /\ op.opts.Stream
    /\ response.body # <<>>
    /\ ret.err.msg = "not dealing with streams yet"
    /\ nclosed = 1

\* the value an operation returns for the JSON document doc when it decodes
DecodedFor(name, doc) ==
    CASE name = "Generate" -> DecodeGenerateResponse(doc).v
      [] name = "Chat" -> DecodeResponseMessage(doc).v
      [] name = "ChatCompletion" -> DecodeResponseMessageGenerate(doc).v
      [] name = "ListModels" -> DecodeListModelsResponse(doc).v.Data
      [] name = "ListBatches" -> DecodeListBatchesResponse(doc).v
      [] OTHER -> DecodeBatch(doc).v

\* the result is the whole decode of the response: of its document for an
\* operation that reads one, of every line of the stream for GetBatchResults
FullyDecoded(name, body, result) ==
    IF name = "GetBatchResults"
    THEN LET chunks == Chunks(body)
         IN /\ Len(result) = Len(chunks)
            /\ \A i \in 1..Len(chunks) :
                  /\ chunks[i].c = "value"
                  /\ result[i] = DecodeBatchResult(chunks[i].v).v
    ELSE /\ StartsWithValue(body)
         /\ result = DecodedFor(name, Head(Chunks(body)).v)

\* C22 as stated: no operation returns both a result and an error: with a
\* non-nil error the result is nil, and with a nil error the result is the
\* fully decoded response.
C22_ResultXorError ==
    pc = "done" =>
        /\ ~ret.err.nil => (ret.nil /\ ret.result = <<>>)
        /\ ret.err.nil => FullyDecoded(op.name, response.body, ret.result)

====
